---------------------------- MODULE Spec2Model ----------------------------
(***************************************************************************)
(* Model of the GrayMatter switching-activity anomaly detector.            *)
(*                                                                         *)
(*   SpecTracker    analysis/monte_carlo/convergence.py  ConvergenceTracker*)
(*   SpecDetector   analysis/detector.py run_detector and                  *)
(*                  scripts/run_analysis_from_vcd.py main                  *)
(*   SpecBaseline   analysis/statistics/baseline_model.py BaselineModel    *)
(*   SpecHypothesis analysis/inference/hypothesis.py and                   *)
(*                  analysis/statistics/false_positives.py                 *)
(*   SpecParser     sim/backends/iverilog.py, vivado.py  _parse_vcd        *)
(*   SpecMonteCarlo analysis/monte_carlo/mc_engine.py  run_monte_carlo     *)
(*   SpecPipeline   scripts/run_analysis_from_vcd.py main, by statement,   *)
(*                  and run_monte_carlo                                    *)
(*                                                                         *)
(* Python floats are modelled by exact rationals <<num, den>> (den > 0,    *)
(* lowest terms); rounding error of IEEE arithmetic is not modelled.       *)
(***************************************************************************)
EXTENDS Integers, Sequences, FiniteSets, TLC

VARIABLES
    \* ---- ConvergenceTracker (convergence.py) ----
    tk,        \* the tracker object's fields, or the construction outcome
    tkCalls,   \* history: one record per check_convergence call, in call order
    \* ---- run_detector / run_analysis_from_vcd ----
    det,       \* the last detector / analysis invocation and its result
    baselineFile, \* results/clean/baseline.json: NoFile or its content
    \* ---- BaselineModel ----
    bm,        \* BaselineModel objects, dicts and the persisted file
    \* ---- hypothesis / false positives ----
    hyp,       \* the last hypothesis evaluation
    \* ---- simulation backends: _parse_vcd ----
    vcd,       \* one parse of a VCD log: the parser's locals and the lines read
    \* ---- run_monte_carlo ----
    mc,        \* one Monte Carlo run: its position, locals and output file
    \* ---- run_analysis_from_vcd main, statement by statement ----
    ana,       \* one run of the analysis script: its position and locals
    \* ---- history of ConvergenceTracker.update ----
    tkSamples, \* the values fed to update, in call order (kept only where a
               \* specification compares the running statistics with them)
    \* ---- simulation backends: run ----
    be         \* one run() of a backend: its position and working directory

vars == <<tk, tkCalls, det, baselineFile, bm, hyp, vcd, mc, ana, tkSamples, be>>

None == "None"
\* a file that does not exist
NoFile == [exists |-> FALSE]
\* an absent optional float (Python None where a float is expected)
NoFloat == <<>>

-----------------------------------------------------------------------------
(* Exact rational arithmetic standing for Python float arithmetic.         *)

RECURSIVE GCD(_, _)
GCD(a, b) == IF b = 0 THEN a ELSE GCD(b, a % b)

IAbs(x) == IF x < 0 THEN -x ELSE x

Norm(n, d) ==
    LET s == IF d < 0 THEN -1 ELSE 1
        g == GCD(IAbs(n), IAbs(d))
    IN  <<(s * n) \div g, (s * d) \div g>>

R(n) == <<n, 1>>
RAdd(a, b) == Norm(a[1] * b[2] + b[1] * a[2], a[2] * b[2])
RSub(a, b) == Norm(a[1] * b[2] - b[1] * a[2], a[2] * b[2])
RMul(a, b) == Norm(a[1] * b[1], a[2] * b[2])
RDivInt(a, k) == Norm(a[1], a[2] * k)
RDiv(a, b) == Norm(a[1] * b[2], a[2] * b[1])
RAbs(a) == <<IAbs(a[1]), a[2]>>
RLt(a, b) == a[1] * b[2] < b[1] * a[2]
RLe(a, b) == a[1] * b[2] <= b[1] * a[2]

\* float("inf"): larger than every finite value under RLt
Inf == <<1, 0>>

\* round(x, digits) with scale = 10^digits, to the nearest multiple of
\* 1/scale, a tie going to the even multiple
RoundTo(a, scale) ==
    LET n == a[1] * scale
        q == n \div a[2]
        twice == 2 * (n - q * a[2])
        up == \/ twice > a[2]
              \/ (twice = a[2] /\ q % 2 = 1)
    IN  Norm(IF up THEN q + 1 ELSE q, scale)

-----------------------------------------------------------------------------
(* ConvergenceTracker                                                      *)

MaxSamples == 4      \* update calls per tracker
MaxChecks == 4       \* check_convergence calls per tracker

SampleValues == {1, 2, 4}
EpsValues == {<<-1, 2>>, <<0, 1>>, <<1, 2>>, <<2, 1>>}
StableValues == {-1, 0, 1, 2}

TrackerInitError_NoStableCheck(mean_eps, var_eps, stable_batches) ==
    IF RLe(mean_eps, R(0)) \/ RLe(var_eps, R(0))
    THEN "Convergence tolerances must be positive"
    ELSE None

\* __init__, lines 53-57: the two configuration errors
TrackerInitError(mean_eps, var_eps, stable_batches) ==
    IF RLe(mean_eps, R(0)) \/ RLe(var_eps, R(0))
    THEN "Convergence tolerances must be positive"
    ELSE IF stable_batches <= 0
    THEN "stable_batches must be positive"
    ELSE None

\* __init__, lines 59-73: the fields of a fresh tracker
NewTracker(mean_eps, var_eps, stable_batches) ==
    [ state |-> "live",
      mean_eps |-> mean_eps, var_eps |-> var_eps,
      stable_batches_required |-> stable_batches,
      count |-> 0, mean |-> R(0), m2 |-> R(0),
      prev_mean |-> NoFloat, prev_variance |-> NoFloat,
      stable_count |-> 0,
      last_result |-> None ]

WelfordUpdate_SquaresDelta(t, value) ==
    LET count1 == t.count + 1
        delta  == RSub(R(value), t.mean)
    IN  [t EXCEPT !.count = count1,
                  !.mean = RAdd(t.mean, RDivInt(delta, count1)),
                  !.m2 = RAdd(t.m2, RMul(delta, delta))]

\* update, lines 85-90 (Welford)
WelfordUpdate(t, value) ==
    LET count1 == t.count + 1
        delta  == RSub(R(value), t.mean)
        mean1  == RAdd(t.mean, RDivInt(delta, count1))
        delta2 == RSub(R(value), mean1)
    IN  [t EXCEPT !.count = count1,
                  !.mean = mean1,
                  !.m2 = RAdd(t.m2, RMul(delta, delta2))]

\* variance, line 110 (callers guarantee count >= 2)
Variance(t) == RDivInt(t.m2, t.count - 1)

WithinTolerance_NeedsChange(t, current_mean, current_variance) ==
    /\ current_mean # t.prev_mean
    /\ RLt(RAbs(RSub(current_mean, t.prev_mean)), t.mean_eps)
    /\ RLt(RAbs(RSub(current_variance, t.prev_variance)), t.var_eps)

\* check_convergence, line 155: the tolerance test
WithinTolerance(t, current_mean, current_variance) ==
    /\ RLt(RAbs(RSub(current_mean, t.prev_mean)), t.mean_eps)
    /\ RLt(RAbs(RSub(current_variance, t.prev_variance)), t.var_eps)

StreakAfter_NoReset(inTol, stable_count) ==
    IF inTol THEN stable_count + 1 ELSE stable_count

\* check_convergence, lines 155-158: the stability streak
StreakAfter(inTol, stable_count) ==
    IF inTol THEN stable_count + 1 ELSE 0

SeedCheckpoint_CountsAsStable(t, current_mean, current_variance) ==
    [t EXCEPT !.prev_mean = current_mean,
              !.prev_variance = current_variance,
              !.stable_count = 1,
              !.last_result = (1 >= t.stable_batches_required)]

SeedCheckpoint_Unseeded(t, current_mean, current_variance) ==
    [t EXCEPT !.stable_count = 0, !.last_result = FALSE]

\* check_convergence, lines 146-150: the first evaluation seeds the checkpoint
SeedCheckpoint(t, current_mean, current_variance) ==
    [t EXCEPT !.prev_mean = current_mean,
              !.prev_variance = current_variance,
              !.stable_count = 0,
              !.last_result = FALSE]

\* check_convergence, lines 139-163: the tracker after the call
\* (last_result is the value the call returned)
CheckConvergence(t) ==
    IF t.count < 2
    THEN [t EXCEPT !.last_result = FALSE]
    ELSE LET current_mean == t.mean
             current_variance == Variance(t)
         IN  IF t.prev_mean = NoFloat \/ t.prev_variance = NoFloat
             THEN SeedCheckpoint(t, current_mean, current_variance)
             ELSE LET sc == StreakAfter(
                                WithinTolerance(t, current_mean, current_variance),
                                t.stable_count)
                  IN  [t EXCEPT !.stable_count = sc,
                                !.prev_mean = current_mean,
                                !.prev_variance = current_variance,
                                !.last_result = (sc >= t.stable_batches_required)]

\* history record of one check_convergence call: what the call saw and returned
CallRecord(before, after) ==
    [ count |-> before.count,
      mean |-> before.mean,
      variance |-> IF before.count >= 2 THEN Variance(before) ELSE NoFloat,
      result |-> after.last_result,
      streak |-> after.stable_count ]

TrackerIdle == [state |-> "none"]

TkConstruct ==
    /\ tk.state = "none"
    /\ \E me \in EpsValues, ve \in EpsValues, sb \in StableValues :
          LET err == TrackerInitError(me, ve, sb)
          IN  tk' = IF err = None THEN NewTracker(me, ve, sb)
                    ELSE [state |-> "error", error |-> err,
                          mean_eps |-> me, var_eps |-> ve,
                          stable_batches_required |-> sb]
    /\ UNCHANGED <<tkCalls, det, baselineFile, bm, hyp, vcd, mc, ana, tkSamples, be>>

TkUpdate ==
    /\ tk.state = "live"
    /\ tk.count < MaxSamples
    /\ \E v \in SampleValues : tk' = WelfordUpdate(tk, v)
    /\ UNCHANGED <<tkCalls, det, baselineFile, bm, hyp, vcd, mc, ana, tkSamples, be>>

TkCheck ==
    /\ tk.state = "live"
    /\ Len(tkCalls) < MaxChecks
    /\ tk' = CheckConvergence(tk)
    /\ tkCalls' = Append(tkCalls, CallRecord(tk, tk'))
    /\ UNCHANGED <<det, baselineFile, bm, hyp, vcd, mc, ana, tkSamples, be>>

\* mean(), line 122: the tracker after the call and what the call returned
MeanCall(t) == [tracker |-> t, raised |-> FALSE, value |-> t.mean]

\* variance(), lines 107-110
VarianceCall(t) ==
    [tracker |-> t, raised |-> t.count < 2,
     value |-> IF t.count < 2 THEN NoFloat ELSE Variance(t)]

StatusCall_ClearsStreak(t) ==
    [tracker |-> [t EXCEPT !.stable_count = 0], raised |-> FALSE,
     value |-> [samples |-> t.count, mean |-> t.mean,
                variance |-> IF t.count >= 2 THEN Variance(t) ELSE NoFloat,
                stable_batches |-> 0,
                stable_required |-> t.stable_batches_required]]

\* status(), lines 176-186
StatusCall(t) ==
    [tracker |-> t, raised |-> FALSE,
     value |-> [samples |-> t.count, mean |-> t.mean,
                variance |-> IF t.count >= 2 THEN Variance(t) ELSE NoFloat,
                stable_batches |-> t.stable_count,
                stable_required |-> t.stable_batches_required]]

\* one of the reading methods is called
TkRead ==
    /\ tk.state = "live"
    /\ \/ tk' = MeanCall(tk).tracker
       \/ tk' = VarianceCall(tk).tracker
       \/ tk' = StatusCall(tk).tracker
    /\ UNCHANGED <<tkCalls, det, baselineFile, bm, hyp, vcd, mc, ana, tkSamples, be>>

-----------------------------------------------------------------------------
(* run_detector (analysis/detector.py)                                     *)
(*                                                                         *)
(* A signal name is a sequence of tokens whose concatenation is the name;  *)
(* the substrings the filter looks for are tokens, and no name of the      *)
(* model has such a substring straddling two tokens.                       *)

MaxObserved == 2     \* signals per observed toggle map

TB_SEED == "tb_alu_secure.seed"
TB_RESULT == "tb_alu_secure.result_trojan"
U_TROJAN == "u_trojan"
SHADOW == "shadow_"

SigSeed == <<TB_SEED>>
SigResult == <<TB_RESULT>>
SigFsm == <<"tb_alu_secure.", U_TROJAN, ".state">>
SigShadow == <<"tb_alu_secure.", U_TROJAN, ".", SHADOW, "trigger">>
SigAcc == <<"tb_alu_secure.", "u_alu", ".acc">>
SigCarry == <<"tb_alu_secure.", "u_alu", ".carry">>
SigSeedShadow == <<TB_SEED, "_", SHADOW, "reg">>

SignalNames ==
    {SigSeed, SigResult, SigFsm, SigShadow, SigAcc, SigCarry, SigSeedShadow}

ObsValues == {0, 1, 3, 6}

\* str.startswith(prefix)
StartsWith(signal, prefix) == Len(signal) >= 1 /\ signal[1] = prefix

\* `sub in signal`
Contains(signal, sub) == \E i \in 1..Len(signal) : signal[i] = sub

Filtered_ShadowNotExempt(signal) ==
    \/ StartsWith(signal, TB_SEED)
    \/ StartsWith(signal, TB_RESULT)
    \/ Contains(signal, U_TROJAN)

\* lines 30-40: the signals the loop skips before the baseline lookup
Filtered(signal) ==
    \/ StartsWith(signal, TB_SEED)
    \/ StartsWith(signal, TB_RESULT)
    \/ (Contains(signal, U_TROJAN) /\ ~Contains(signal, SHADOW))

\* dict.get(key, default)
Get(d, key, default) == IF key \in DOMAIN d THEN d[key] ELSE default

ZeroBaseline_InfThreshold ==
    [mean |-> R(0), std |-> R(0), threshold |-> Inf, samples |-> <<R(0)>>]

\* lines 45-50: a signal without a baseline entry
ZeroBaseline ==
    [mean |-> R(0), std |-> R(0), threshold |-> R(0), samples |-> <<R(0)>>]

\* lines 45-56: mean, std and threshold of a signal
BaselineStats(baseline, signal) ==
    IF signal \notin DOMAIN baseline
    THEN ZeroBaseline
    ELSE LET b == baseline[signal]
         IN  [mean |-> Get(b, "mean", R(0)),
              std |-> Get(b, "std", R(0)),
              threshold |-> Get(b, "iqr_threshold", Inf),
              samples |-> Get(b, "samples", <<>>)]

\* lines 61-64
DeviationPct(obs_val, mean) ==
    IF RLt(R(0), mean)
    THEN RMul(RDiv(RSub(R(obs_val), mean), mean), R(100))
    ELSE IF obs_val > 0 THEN R(100) ELSE R(0)

\* line 68
ZScore(obs_val, mean, std) ==
    IF RLt(R(0), std) THEN RDiv(RSub(R(obs_val), mean), std) ELSE R(0)

ExceedsThreshold_NotStrict(obs_val, threshold) == RLe(threshold, R(obs_val))

\* line 78: the anomaly decision
ExceedsThreshold(obs_val, threshold) == RLt(threshold, R(obs_val))

\* lines 79-90: the anomaly entry of a flagged signal (rank is set later)
AnomalyEntry(signal, obs_val, st) ==
    [ signal |-> signal,
      observed |-> obs_val,
      mean |-> RoundTo(st.mean, 1000),
      deviation |-> RoundTo(DeviationPct(obs_val, st.mean), 100),
      z_score |-> RoundTo(ZScore(obs_val, st.mean, st.std), 100),
      class |-> IF Contains(signal, SHADOW) THEN "trojan_internal"
                ELSE "propagated",
      rank |-> 0 ]

\* lines 24-90: the loop over observed.items(), in insertion order; observed
\* is the sequence of <<signal, count>> items of the dict
RECURSIVE CollectAnomalies(_, _, _)
CollectAnomalies(baseline, observed, i) ==
    IF i > Len(observed) THEN <<>>
    ELSE LET signal == observed[i][1]
             obs_val == observed[i][2]
             st == BaselineStats(baseline, signal)
             rest == CollectAnomalies(baseline, observed, i + 1)
         IN  IF Filtered(signal) THEN rest
             ELSE IF ExceedsThreshold(obs_val, st.threshold)
                  THEN <<AnomalyEntry(signal, obs_val, st)>> \o rest
                  ELSE rest

\* line 66: the loop appends one entry to `deviations` for every signal that
\* gets past the filter; the signals those entries belong to, in loop order
RECURSIVE TestedSignals(_, _)
TestedSignals(observed, i) ==
    IF i > Len(observed) THEN <<>>
    ELSE LET rest == TestedSignals(observed, i + 1)
         IN  IF Filtered(observed[i][1]) THEN rest
             ELSE <<observed[i][1]>> \o rest

\* lines 50, 56: baseline_samples, in loop order
RECURSIVE CollectBaselineSamples(_, _, _)
CollectBaselineSamples(baseline, observed, i) ==
    IF i > Len(observed) THEN <<>>
    ELSE LET signal == observed[i][1]
             rest == CollectBaselineSamples(baseline, observed, i + 1)
         IN  IF Filtered(signal) THEN rest
             ELSE BaselineStats(baseline, signal).samples \o rest

\* position at which list.sort(key, reverse=True) leaves an element: after
\* every element whose key is greater or equal (the sort is stable)
RECURSIVE InsertDesc(_, _)
InsertDesc(sorted, a) ==
    IF sorted = <<>> THEN <<a>>
    ELSE IF RLt(RAbs(Head(sorted).deviation), RAbs(a.deviation))
         THEN <<a>> \o sorted
         ELSE <<Head(sorted)>> \o InsertDesc(Tail(sorted), a)

RECURSIVE InsertAsc(_, _)
InsertAsc(sorted, a) ==
    IF sorted = <<>> THEN <<a>>
    ELSE IF RLt(RAbs(a.deviation), RAbs(Head(sorted).deviation))
         THEN <<a>> \o sorted
         ELSE <<Head(sorted)>> \o InsertAsc(Tail(sorted), a)

RECURSIVE SortAsc(_, _)
SortAsc(anomalies, n) ==
    IF n = 0 THEN <<>>
    ELSE InsertAsc(SortAsc(anomalies, n - 1), anomalies[n])

RECURSIVE SortDesc(_, _)
SortDesc(anomalies, n) ==
    IF n = 0 THEN <<>>
    ELSE InsertDesc(SortDesc(anomalies, n - 1), anomalies[n])

RankAnomalies_Ascending(anomalies) ==
    LET sorted == SortAsc(anomalies, Len(anomalies))
    IN  [i \in 1..Len(sorted) |-> [sorted[i] EXCEPT !.rank = i]]

\* lines 109-111: sort by |deviation| descending, then number from 1
RankAnomalies(anomalies) ==
    LET sorted == SortDesc(anomalies, Len(anomalies))
    IN  [i \in 1..Len(sorted) |-> [sorted[i] EXCEPT !.rank = i]]

Decision_PrimaryIsLast(anomalies) ==
    LET any == Len(anomalies) > 0
        last == Len(anomalies)
    IN  [ trojan_detected |-> any,
          primary_signal |-> IF any THEN anomalies[last].signal ELSE <<>>,
          primary_deviation |-> IF any THEN anomalies[last].deviation ELSE NoFloat,
          threshold |-> "per-signal IQR + zero-baseline",
          z_score |-> IF any THEN anomalies[last].z_score ELSE NoFloat,
          confidence |-> IF any THEN "high" ELSE "low" ]

\* lines 147-154: the decision block; None is <<>> for the signal and NoFloat
\* for the numbers
Decision(anomalies) ==
    LET any == Len(anomalies) > 0
    IN  [ trojan_detected |-> any,
          primary_signal |-> IF any THEN anomalies[1].signal ELSE <<>>,
          primary_deviation |-> IF any THEN anomalies[1].deviation ELSE NoFloat,
          threshold |-> "per-signal IQR + zero-baseline",
          z_score |-> IF any THEN anomalies[1].z_score ELSE NoFloat,
          confidence |-> IF any THEN "high" ELSE "low" ]

\* lines 14-157: the result of run_detector. The "statistics" block (mean,
\* median, std, max of the deviations) is derived output that nothing reads
\* back and is left out.
RunDetector(baseline, observed) ==
    LET anomalies == RankAnomalies(CollectAnomalies(baseline, observed, 1))
    IN  [ total_signals |-> Len(observed),
          baseline_samples |-> CollectBaselineSamples(baseline, observed, 1),
          observed_samples |-> [i \in 1..Len(observed) |-> observed[i][2]],
          anomalies |-> anomalies,
          decision |-> Decision(anomalies) ]

\* ---- inputs of the detector ----

\* an insertion-ordered dict of at most MaxObserved signals: its items
ObservedMaps ==
    UNION { { o \in [1..n -> SignalNames \X ObsValues] :
                \A i, j \in 1..n : i # j => o[i][1] # o[j][1] }
            : n \in 0..MaxObserved }

EntryOf(mean, std, thr) ==
    [mean |-> mean, std |-> std, iqr_threshold |-> thr, samples |-> <<mean>>]

\* per-signal baselines handed to run_detector: none, one as the clean
\* analysis writes it, two from pooled clean samples (one skewed, so that a
\* threshold lies below the mean), and one whose entries lack keys
Baselines ==
    { [x \in {} |-> 0],
      (SigAcc :> EntryOf(R(3), R(0), R(3)))
        @@ (SigCarry :> EntryOf(R(1), R(0), R(1)))
        @@ (SigSeed :> EntryOf(R(6), R(0), R(6))),
      (SigAcc :> EntryOf(R(3), <<1, 2>>, <<15, 4>>))
        @@ (SigCarry :> EntryOf(R(4), R(2), R(0)))
        @@ (SigShadow :> EntryOf(R(0), R(0), R(1)))
        @@ (SigFsm :> EntryOf(R(1), R(1), R(2))),
      (SigAcc :> EntryOf(R(3), R(1), R(0)))
        @@ (SigCarry :> EntryOf(<<3, 2>>, <<1, 2>>, <<5, 2>>))
        @@ (SigSeedShadow :> EntryOf(R(1), R(0), R(1))),
      (SigAcc :> [mean |-> R(3)])
        @@ (SigCarry :> [iqr_threshold |-> R(1)]) }

\* toggle maps of clean runs
CleanRuns ==
    { <<<<SigAcc, 3>>, <<SigCarry, 1>>>>,
      <<<<SigSeed, 6>>, <<SigAcc, 1>>>>,
      <<<<SigCarry, 3>>, <<SigAcc, 0>>, <<SigResult, 1>>>>,
      <<>> }

-----------------------------------------------------------------------------
(* main of scripts/run_analysis_from_vcd.py                                *)

\* line 57: sum(toggles.values())
RECURSIVE TotalActivity(_, _)
TotalActivity(toggles, n) ==
    IF n = 0 THEN 0 ELSE toggles[n][2] + TotalActivity(toggles, n - 1)

CleanBaseline_HalvedThreshold(toggles) ==
    [ signals |->
        [sig \in {toggles[i][1] : i \in 1..Len(toggles)} |->
            LET val == (CHOOSE i \in 1..Len(toggles) : toggles[i][1] = sig)
            IN  EntryOf(R(toggles[val][2]), R(0),
                        RDivInt(R(toggles[val][2]), 2))],
      global_activity |-> <<TotalActivity(toggles, Len(toggles))>> ]

\* lines 65-75: the baseline built from the clean run; the per-signal entries
\* and the "__global_activity__" entry of the same dict are kept apart here
\* (no signal path equals that key); an optional number is a sequence of at
\* most one element, <<>> standing for None
CleanBaseline(toggles) ==
    [ signals |->
        [sig \in {toggles[i][1] : i \in 1..Len(toggles)} |->
            LET val == (CHOOSE i \in 1..Len(toggles) : toggles[i][1] = sig)
            IN  EntryOf(R(toggles[val][2]), R(0), R(toggles[val][2]))],
      global_activity |-> <<TotalActivity(toggles, Len(toggles))>> ]

GlobalOverride_Replaces(results, total_activity, clean_global) ==
    IF clean_global # <<>>
    THEN [results EXCEPT
             !.decision.trojan_detected =
                 RLt(RMul(<<3, 2>>, R(clean_global[1])), R(total_activity))]
    ELSE results

\* lines 100-104: the global-activity positive control
GlobalOverride(results, total_activity, clean_global) ==
    IF clean_global # <<>>
       /\ RLt(RMul(<<3, 2>>, R(clean_global[1])), R(total_activity))
    THEN [results EXCEPT !.decision.trojan_detected = TRUE,
                         !.decision.confidence = "high",
                         !.decision.threshold = "global activity (1.5x clean)"]
    ELSE results

\* run_detector called directly on a baseline and an observed map
DetRun ==
    /\ det.op = "none"
    /\ \E b \in Baselines, o \in ObservedMaps :
          det' = [ op |-> "run_detector", baseline |-> b, observed |-> o,
                   tested |-> TestedSignals(o, 1),
                   detector_results |-> RunDetector(b, o),
                   results |-> RunDetector(b, o) ]
    /\ UNCHANGED <<tk, tkCalls, baselineFile, bm, hyp, vcd, mc, ana, tkSamples, be>>

\* lines 56-81, --variant clean on a toggle map: the baseline file written
\* and the analysis made
CleanAnalysis(toggles) ==
    LET baseline == CleanBaseline(toggles)
    IN  [ file |-> baseline,
          det |-> [ op |-> "analysis_clean", observed |-> toggles,
                    baseline |-> baseline.signals,
                    tested |-> TestedSignals(toggles, 1),
                    total_activity |-> TotalActivity(toggles, Len(toggles)),
                    detector_results |-> RunDetector(baseline.signals, toggles),
                    results |-> RunDetector(baseline.signals, toggles) ] ]

\* lines 56-81: --variant clean
AnalyzeClean ==
    /\ det.op = "none"
    /\ \E toggles \in CleanRuns :
          /\ baselineFile' = CleanAnalysis(toggles).file
          /\ det' = CleanAnalysis(toggles).det
    /\ UNCHANGED <<tk, tkCalls, bm, hyp, vcd, mc, ana, tkSamples, be>>

\* lines 56-81: --variant clean, on any toggle map
AnalyzeCleanAny ==
    /\ det.op = "none"
    /\ \E toggles \in ObservedMaps :
          /\ baselineFile' = CleanAnalysis(toggles).file
          /\ det' = CleanAnalysis(toggles).det
    /\ UNCHANGED <<tk, tkCalls, bm, hyp, vcd, mc, ana, tkSamples, be>>

\* lines 56-104: any other --variant
AnalyzeVariant ==
    /\ det.op \in {"none", "analysis_clean"}
    /\ \E toggles \in ObservedMaps :
          IF baselineFile = NoFile
          THEN det' = [ op |-> "analysis_failed",
                        error |-> "Clean baseline not found. Run clean first." ]
          ELSE LET baseline == baselineFile
                   total_activity == TotalActivity(toggles, Len(toggles))
                   clean_global == baseline.global_activity
                   raw == RunDetector(baseline.signals, toggles)
               IN  det' = [ op |-> "analysis_variant", observed |-> toggles,
                            baseline |-> baseline.signals,
                            tested |-> TestedSignals(toggles, 1),
                            total_activity |-> total_activity,
                            clean_global |-> clean_global,
                            detector_results |-> raw,
                            results |-> GlobalOverride(raw, total_activity,
                                                       clean_global) ]
    /\ UNCHANGED <<tk, tkCalls, baselineFile, bm, hyp, vcd, mc, ana, tkSamples, be>>

DetIdle == [op |-> "none"]
BmIdle == [op |-> "none"]
HypIdle == [op |-> "none"]
VcdIdle == [pc |-> "none"]
McIdle == [pc |-> "none"]
AnIdle == [pc |-> "none"]
BeIdle == [pc |-> "none"]

-----------------------------------------------------------------------------
(* BaselineModel (analysis/statistics/baseline_model.py)                   *)

NoObj == [exists |-> FALSE]
NoDict == [absent |-> TRUE]
NoArgs == [absent |-> TRUE]

\* required_fields, lines 118-124, in the order from_dict looks for them
RequiredFields == <<"mean", "variance", "samples", "converged", "metadata">>

MeanValues == {R(0), <<21, 2>>}
VarianceValues == {R(-1), R(0), <<9, 4>>}
SamplesValues == {0, 1, 2, 40}
MetadataValues == {[backend |-> "iverilog"], [x \in {} |-> 0]}

CtorArgs ==
    [mean : MeanValues, variance : VarianceValues, samples : SamplesValues,
     converged : BOOLEAN, metadata : MetadataValues]

ValidateError_NoVarianceCheck(mean, variance, samples, converged) ==
    IF samples <= 1
    THEN "Baseline must be estimated from more than one sample"
    ELSE IF ~converged
    THEN "Baseline model cannot be created without convergence"
    ELSE None

\* _validate, lines 72-83: the error raised, None when there is none
ValidateError(mean, variance, samples, converged) ==
    IF samples <= 1
    THEN "Baseline must be estimated from more than one sample"
    ELSE IF RLt(variance, R(0))
    THEN "Variance must be non-negative"
    ELSE IF ~converged
    THEN "Baseline model cannot be created without convergence"
    ELSE None

\* __init__, lines 56-62: the object, or the error of _validate
Construct(a) ==
    LET err == ValidateError(a.mean, a.variance, a.samples, a.converged)
    IN  IF err # None
        THEN [obj |-> NoObj, error |-> err]
        ELSE [obj |-> [mean |-> a.mean, variance |-> a.variance,
                       samples |-> a.samples, converged |-> a.converged,
                       metadata |-> a.metadata],
              error |-> None]

AsDict_SwapsFields(m) ==
    ("mean" :> m.variance) @@ ("variance" :> m.mean)
      @@ ("samples" :> m.samples) @@ ("converged" :> m.converged)
      @@ ("metadata" :> m.metadata)

\* as_dict, lines 94-100: a dict is a function from its keys
AsDict(m) ==
    ("mean" :> m.mean) @@ ("variance" :> m.variance)
      @@ ("samples" :> m.samples) @@ ("converged" :> m.converged)
      @@ ("metadata" :> m.metadata)

\* from_dict, lines 126-128: the first required field the dict lacks
RECURSIVE FirstMissing(_, _)
FirstMissing(data, i) ==
    IF i > Len(RequiredFields) THEN None
    ELSE IF RequiredFields[i] \notin DOMAIN data THEN RequiredFields[i]
    ELSE FirstMissing(data, i + 1)

\* line 128: f"Missing required field: {field}"
MissingFieldError(field) ==
    CASE field = "mean" -> "Missing required field: mean"
      [] field = "variance" -> "Missing required field: variance"
      [] field = "samples" -> "Missing required field: samples"
      [] field = "converged" -> "Missing required field: converged"
      [] field = "metadata" -> "Missing required field: metadata"

\* the constructor arguments from_dict passes, lines 130-136
ArgsOfDict(data) ==
    [mean |-> data["mean"], variance |-> data["variance"],
     samples |-> data["samples"], converged |-> data["converged"],
     metadata |-> data["metadata"]]

\* from_dict, lines 118-136
FromDict(data) ==
    LET missing == FirstMissing(data, 1)
    IN  IF missing # None
        THEN [obj |-> NoObj, error |-> MissingFieldError(missing),
              args |-> NoArgs]
        ELSE LET r == Construct(ArgsOfDict(data))
             IN  [obj |-> r.obj, error |-> r.error, args |-> ArgsOfDict(data)]

\* yaml.safe_dump, line 149: a block mapping, one "key: value" line per key,
\* keys in sorted order
YamlKeyOrder ==
    <<"backend", "batch_size", "batches_run", "converged", "mean", "metadata",
      "normalization", "samples", "variance">>

RECURSIVE YamlLines(_, _)
YamlLines(data, i) ==
    IF i > Len(YamlKeyOrder) THEN <<>>
    ELSE IF YamlKeyOrder[i] \in DOMAIN data
         THEN <<<<YamlKeyOrder[i], data[YamlKeyOrder[i]]>>>>
                  \o YamlLines(data, i + 1)
         ELSE YamlLines(data, i + 1)

YamlDump(data) == [exists |-> TRUE, lines |-> YamlLines(data, 1)]

\* yaml.safe_load, line 170: the mapping of the document's lines
YamlLoad(file) ==
    [k \in {file.lines[i][1] : i \in 1..Len(file.lines)} |->
        file.lines[CHOOSE i \in 1..Len(file.lines) : file.lines[i][1] = k][2]]

\* dicts handed to from_dict, and documents found on disk by load, other than
\* those as_dict and save produce: fields missing, values that fail
\* validation, an extra key
DictInputs ==
    { [x \in {} |-> 0],
      ("mean" :> R(0)) @@ ("variance" :> R(0)) @@ ("samples" :> 2)
        @@ ("converged" :> TRUE),
      ("variance" :> R(0)) @@ ("samples" :> 2) @@ ("converged" :> TRUE)
        @@ ("metadata" :> [x \in {} |-> 0]),
      ("mean" :> R(0)) @@ ("variance" :> R(-1)) @@ ("samples" :> 40)
        @@ ("converged" :> TRUE) @@ ("metadata" :> [x \in {} |-> 0]),
      ("mean" :> R(0)) @@ ("variance" :> R(0)) @@ ("samples" :> 1)
        @@ ("converged" :> TRUE) @@ ("metadata" :> [x \in {} |-> 0]),
      ("mean" :> <<21, 2>>) @@ ("variance" :> <<9, 4>>) @@ ("samples" :> 40)
        @@ ("converged" :> FALSE) @@ ("metadata" :> [x \in {} |-> 0]),
      ("mean" :> <<21, 2>>) @@ ("variance" :> <<9, 4>>) @@ ("samples" :> 40)
        @@ ("converged" :> TRUE) @@ ("metadata" :> [backend |-> "vivado"])
        @@ ("backend" :> "vivado") }

\* BaselineModel(mean, variance, samples, converged, metadata)
BmNew ==
    /\ bm.op = "none"
    /\ \E a \in CtorArgs :
          LET r == Construct(a)
          IN  bm' = [bm EXCEPT !.op = "new", !.args = a, !.obj = r.obj,
                               !.error = r.error]
    /\ UNCHANGED <<tk, tkCalls, det, baselineFile, hyp, vcd, mc, ana, tkSamples, be>>

\* m.as_dict()
BmAsDict ==
    /\ bm.obj # NoObj
    /\ bm' = [bm EXCEPT !.op = "as_dict", !.data = AsDict(bm.obj),
                        !.error = None]
    /\ UNCHANGED <<tk, tkCalls, det, baselineFile, hyp, vcd, mc, ana, tkSamples, be>>

\* BaselineModel.from_dict(data), on the dict as_dict returned or on another
BmFromDict ==
    /\ bm.op # "none"
    /\ \E data \in DictInputs \cup ({bm.data} \ {NoDict}) :
          LET r == FromDict(data)
          IN  bm' = [bm EXCEPT !.op = "from_dict", !.input = data,
                               !.args = r.args, !.copy = r.obj,
                               !.error = r.error]
    /\ UNCHANGED <<tk, tkCalls, det, baselineFile, hyp, vcd, mc, ana, tkSamples, be>>

\* m.save(path), lines 147-149
BmSave ==
    /\ bm.obj # NoObj
    /\ bm' = [bm EXCEPT !.op = "save", !.file = YamlDump(AsDict(bm.obj)),
                        !.error = None]
    /\ UNCHANGED <<tk, tkCalls, det, baselineFile, hyp, vcd, mc, ana, tkSamples, be>>

\* BaselineModel.load(path), lines 166-172
BmLoad ==
    /\ bm.op # "none"
    /\ IF bm.file = NoFile
       THEN bm' = [bm EXCEPT !.op = "load", !.input = NoDict, !.args = NoArgs,
                             !.copy = NoObj,
                             !.error = "Baseline file not found"]
       ELSE LET data == YamlLoad(bm.file)
                r == FromDict(data)
            IN  bm' = [bm EXCEPT !.op = "load", !.input = data,
                                 !.args = r.args, !.copy = r.obj,
                                 !.error = r.error]
    /\ UNCHANGED <<tk, tkCalls, det, baselineFile, hyp, vcd, mc, ana, tkSamples, be>>

\* before any call: no object, and at the path either no file or a document
\* written earlier
InitBaseline ==
    /\ vcd = VcdIdle
    /\ mc = McIdle
    /\ ana = AnIdle
    /\ tkSamples = <<>>
    /\ be = BeIdle
    /\ tk = TrackerIdle
    /\ tkCalls = <<>>
    /\ det = DetIdle
    /\ baselineFile = NoFile
    /\ hyp = HypIdle
    /\ \E f \in {NoFile} \cup {YamlDump(d) : d \in DictInputs} :
          bm = [op |-> "none", args |-> NoArgs, obj |-> NoObj, copy |-> NoObj,
                data |-> NoDict, input |-> NoDict, file |-> f, error |-> None]

NextBaseline == BmNew \/ BmAsDict \/ BmFromDict \/ BmSave \/ BmLoad

SpecBaseline == InitBaseline /\ [][NextBaseline]_vars

InitTracker ==
    /\ vcd = VcdIdle
    /\ mc = McIdle
    /\ ana = AnIdle
    /\ tkSamples = <<>>
    /\ be = BeIdle
    /\ tk = TrackerIdle
    /\ tkCalls = <<>>
    /\ det = DetIdle
    /\ baselineFile = NoFile
    /\ bm = BmIdle
    /\ hyp = HypIdle

NextTracker == TkConstruct \/ TkUpdate \/ TkCheck \/ TkRead

SpecTracker == InitTracker /\ [][NextTracker]_vars

-----------------------------------------------------------------------------
(* compute_z_score, compute_confidence_from_z, evaluate_hypothesis         *)
(* (analysis/inference/hypothesis.py) and estimate_false_positive_rate     *)
(* (analysis/statistics/false_positives.py)                                *)

MaxObservations == 2     \* length of the observations list

\* math.sqrt on the variances of the model, all squares of rationals
ISqrt(n) == CHOOSE k \in 0..n : k * k = n
Sqrt(a) == <<ISqrt(a[1]), ISqrt(a[2])>>

\* compute_z_score, lines 44-49
ComputeZScore(observed, baseline) ==
    IF RLe(baseline.variance, R(0))
    THEN [error |-> "Baseline variance must be positive to compute Z-score"]
    ELSE [error |-> None,
          z |-> RDiv(RSub(R(observed), baseline.mean), Sqrt(baseline.variance))]

\* 1.0 - math.erfc(x / math.sqrt(2.0)) for x = 0, 1/2, 1, ..., 5, in units
\* of 10^-7
ErfTable ==
    <<0, 3829249, 6826895, 8663856, 9544997, 9875807, 9973002, 9995347,
      9999367, 9999932, 9999994>>

\* compute_confidence_from_z, line 73; |z| is a multiple of 1/2 up to 5
ConfidenceFromZ(z_score) ==
    LET twice == RMul(R(2), RAbs(z_score))
    IN  Norm(ErfTable[twice[1] + 1], 10000000)

\* evaluate_hypothesis, lines 98-107
EvaluateHypothesis(observed, baseline) ==
    LET zr == ComputeZScore(observed, baseline)
    IN  IF zr.error # None THEN [error |-> zr.error]
        ELSE [error |-> None,
              observed |-> observed,
              mean |-> baseline.mean,
              variance |-> baseline.variance,
              z_score |-> zr.z,
              confidence |-> ConfidenceFromZ(zr.z)]

\* false_positives.py lines 54-60: the loop, up to and including item n;
\* the evaluations made, the count of flagged observations and the first
\* error raised
RECURSIVE FprLoop(_, _, _, _)
FprLoop(observations, baseline, z_threshold, n) ==
    IF n = 0 THEN [error |-> None, stats |-> <<>>, false_positives |-> 0]
    ELSE LET before == FprLoop(observations, baseline, z_threshold, n - 1)
             st == EvaluateHypothesis(observations[n], baseline)
         IN  IF before.error # None THEN before
             ELSE IF st.error # None
             THEN [error |-> st.error, stats |-> before.stats,
                   false_positives |-> before.false_positives]
             ELSE [error |-> None,
                   stats |-> Append(before.stats, st),
                   false_positives |->
                       IF RLt(z_threshold, RAbs(st.z_score))
                       THEN before.false_positives + 1
                       ELSE before.false_positives]

RECURSIVE MaxAbsZ(_, _)
MaxAbsZ(stats, n) ==
    IF n = 1 THEN RAbs(stats[1].z_score)
    ELSE LET m == MaxAbsZ(stats, n - 1)
             z == RAbs(stats[n].z_score)
         IN  IF RLt(m, z) THEN z ELSE m

RECURSIVE SumAbsZ(_, _)
SumAbsZ(stats, n) ==
    IF n = 0 THEN R(0)
    ELSE RAdd(SumAbsZ(stats, n - 1), RAbs(stats[n].z_score))

\* estimate_false_positive_rate, lines 44-71
EstimateFalsePositiveRate(observations, baseline, z_threshold) ==
    IF RLe(z_threshold, R(0))
    THEN [error |-> "Z-score threshold must be positive"]
    ELSE IF Len(observations) = 0
    THEN [error |-> "No observations provided"]
    ELSE LET total == Len(observations)
             loop == FprLoop(observations, baseline, z_threshold, total)
         IN  IF loop.error # None THEN [error |-> loop.error]
             ELSE [error |-> None,
                   stats |-> loop.stats,
                   threshold |-> z_threshold,
                   total_observations |-> total,
                   false_positives |-> loop.false_positives,
                   false_positive_rate |-> RDivInt(R(loop.false_positives), total),
                   max_z |-> MaxAbsZ(loop.stats, total),
                   mean_z |-> RDivInt(SumAbsZ(loop.stats, total), total)]

\* ---- inputs ----
HypObserved == {5, 8, 10, 11, 13, 15}
ZThresholds == {R(0), R(1), R(2), R(3)}
\* the configured confidence_level of the detection thresholds; no function
\* of the program takes it
ConfidenceLevels == {<<95, 100>>, <<99, 100>>}

\* converged global baselines: mean 10, variance 0, 1 or 4
HypBaselines ==
    { Construct([mean |-> R(10), variance |-> v, samples |-> 40,
                 converged |-> TRUE, metadata |-> [x \in {} |-> 0]]).obj
      : v \in {R(0), R(1), R(4)} }

ObservationLists ==
    UNION { [1..n -> HypObserved] : n \in 0..MaxObservations }

\* evaluate_hypothesis(observed, baseline)
HypEvaluate ==
    /\ hyp.op = "none"
    /\ \E x \in HypObserved, b \in HypBaselines :
          hyp' = [op |-> "evaluate_hypothesis", baseline |-> b, observed |-> x,
                  result |-> EvaluateHypothesis(x, b)]
    /\ UNCHANGED <<tk, tkCalls, det, baselineFile, bm, vcd, mc, ana, tkSamples, be>>

\* estimate_false_positive_rate(observations, baseline, z_threshold), under a
\* configuration whose confidence_level is cl
HypEstimate ==
    /\ hyp.op = "none"
    /\ \E obs \in ObservationLists, b \in HypBaselines, zt \in ZThresholds,
          cl \in ConfidenceLevels :
          hyp' = [op |-> "estimate_false_positive_rate", baseline |-> b,
                  observations |-> obs, z_threshold |-> zt,
                  confidence_level |-> cl,
                  result |-> EstimateFalsePositiveRate(obs, b, zt)]
    /\ UNCHANGED <<tk, tkCalls, det, baselineFile, bm, vcd, mc, ana, tkSamples, be>>

InitHypothesis ==
    /\ vcd = VcdIdle
    /\ mc = McIdle
    /\ ana = AnIdle
    /\ tkSamples = <<>>
    /\ be = BeIdle
    /\ tk = TrackerIdle
    /\ tkCalls = <<>>
    /\ det = DetIdle
    /\ baselineFile = NoFile
    /\ bm = BmIdle
    /\ hyp = HypIdle

NextHypothesis == HypEvaluate \/ HypEstimate

SpecHypothesis == InitHypothesis /\ [][NextHypothesis]_vars

-----------------------------------------------------------------------------
(* Properties of ConvergenceTracker                                        *)

\* Evaluation i compares what call i saw with what call i-1 saw; it is within
\* tolerance when call i-1 had a variance to record and both differences are
\* below the tolerances.
EvalWithinTolerance(i) ==
    /\ i >= 2
    /\ tkCalls[i - 1].count >= 2
    /\ RLt(RAbs(RSub(tkCalls[i].mean, tkCalls[i - 1].mean)), tk.mean_eps)
    /\ RLt(RAbs(RSub(tkCalls[i].variance, tkCalls[i - 1].variance)), tk.var_eps)

\* number of consecutive within-tolerance evaluations ending with call i
RECURSIVE TrailingStable(_)
TrailingStable(i) ==
    IF i >= 1 /\ EvalWithinTolerance(i) THEN 1 + TrailingStable(i - 1) ELSE 0

\* C1: check_convergence returns true only when the stable_batches most
\* recent evaluations were all within tolerance against the checkpoint of the
\* preceding call; the streak is the number of consecutive within-tolerance
\* evaluations since the last out-of-tolerance one (which resets it to zero).
C1_TrueOnlyAfterStableStreak ==
    tk.state = "live" =>
        /\ \A i \in 1..Len(tkCalls) :
              tkCalls[i].result = TRUE =>
                  TrailingStable(i) >= tk.stable_batches_required
        /\ Len(tkCalls) >= 1 => tk.stable_count = TrailingStable(Len(tkCalls))

\* C1 witness: with stable_batches = 2, an out-of-tolerance evaluation reset
\* the streak and two further within-tolerance evaluations returned true.
C1_Witness ==
    /\ tk.state = "live"
    /\ tk.stable_batches_required = 2
    /\ Len(tkCalls) = 4
    /\ tkCalls[1].count >= 2
    /\ ~EvalWithinTolerance(2)
    /\ tkCalls[3].result = FALSE
    /\ tkCalls[4].result = TRUE
    /\ tkCalls[4].count > tkCalls[2].count

\* C2 as stated: the first call never returns true and always seeds the
\* checkpoint, whatever number of samples preceded it.
C2_FirstCallAlwaysSeeds ==
    (tk.state = "live" /\ Len(tkCalls) >= 1) =>
        /\ tkCalls[1].result = FALSE
        /\ tk.prev_mean # NoFloat
        /\ tk.prev_variance # NoFloat

\* C2 amended: the first call never returns true; when at least two samples
\* preceded it, it records the current mean and variance as the checkpoint
\* the second call compares against; with fewer than two samples it records
\* nothing and the checkpoint stays unset.
C2_FirstCallSeedsGivenTwoSamples ==
    (tk.state = "live" /\ Len(tkCalls) >= 1) =>
        /\ tkCalls[1].result = FALSE
        /\ (tkCalls[1].count >= 2 /\ Len(tkCalls) = 1) =>
              /\ tk.prev_mean = tkCalls[1].mean
              /\ tk.prev_variance = tkCalls[1].variance
              /\ tk.stable_count = 0
        /\ (tkCalls[1].count >= 2 /\ Len(tkCalls) = 2) =>
              /\ tk.stable_count = IF EvalWithinTolerance(2) THEN 1 ELSE 0
              /\ tkCalls[2].result =
                     (EvalWithinTolerance(2) /\ tk.stable_batches_required = 1)
        /\ (tkCalls[1].count < 2 /\ Len(tkCalls) = 1) =>
              /\ tk.prev_mean = NoFloat
              /\ tk.prev_variance = NoFloat
              /\ tk.stable_count = 0

\* C2 witness: a first call after three samples seeded the checkpoint and the
\* second call, after another sample, compared against it and converged.
C2_Witness ==
    /\ tk.state = "live"
    /\ Len(tkCalls) = 2
    /\ tkCalls[1].count = 3
    /\ tkCalls[2].count = 4
    /\ tkCalls[1].result = FALSE
    /\ tkCalls[2].result = TRUE

InitDetector ==
    /\ vcd = VcdIdle
    /\ mc = McIdle
    /\ ana = AnIdle
    /\ tkSamples = <<>>
    /\ be = BeIdle
    /\ tk = TrackerIdle
    /\ tkCalls = <<>>
    /\ det = DetIdle
    /\ baselineFile = NoFile
    /\ bm = BmIdle
    /\ hyp = HypIdle

NextDetector == DetRun \/ AnalyzeClean \/ AnalyzeVariant

SpecDetector == InitDetector /\ [][NextDetector]_vars

-----------------------------------------------------------------------------
(* Properties of run_detector and of the analysis script                   *)

DetectorRan == det.op \in {"run_detector", "analysis_clean", "analysis_variant"}

\* the per-signal IQR threshold the baseline holds for a signal: the entry's
\* iqr_threshold, infinite when the entry has none, 0 when there is no entry
ThresholdOf(baseline, signal) ==
    IF signal \notin DOMAIN baseline THEN R(0)
    ELSE IF "iqr_threshold" \in DOMAIN baseline[signal]
         THEN baseline[signal].iqr_threshold
         ELSE Inf

MeanOf(baseline, signal) ==
    IF signal \in DOMAIN baseline /\ "mean" \in DOMAIN baseline[signal]
    THEN baseline[signal].mean
    ELSE R(0)

\* the name filter as the specification words it
TestbenchOnly(signal) ==
    signal[1] \in {TB_SEED, TB_RESULT}
StructuralInternal(signal) ==
    /\ \E i \in 1..Len(signal) : signal[i] = U_TROJAN
    /\ \A i \in 1..Len(signal) : signal[i] # SHADOW
PayloadClass(signal) == \E i \in 1..Len(signal) : signal[i] = SHADOW
PassesFilter(signal) == ~TestbenchOnly(signal) /\ ~StructuralInternal(signal)

Flagged(results, signal) ==
    \E k \in 1..Len(results.anomalies) : results.anomalies[k].signal = signal

\* C3: a signal that passes the name filter is in the anomaly list if and
\* only if its raw observed value is strictly greater than its per-signal
\* IQR threshold, whatever its z-score and percentage deviation are.
C3_FlaggedIffAboveThreshold ==
    DetectorRan =>
        \A i \in 1..Len(det.observed) :
            LET signal == det.observed[i][1]
                obs_val == det.observed[i][2]
                thr == ThresholdOf(det.baseline, signal)
            IN  PassesFilter(signal) =>
                    (Flagged(det.detector_results, signal)
                        <=> thr[1] * 1 < obs_val * thr[2])

\* C3 witness: of two signals past the filter, the one flagged deviates less
\* from its mean (in percent) than the one not flagged.
C3_Witness ==
    /\ det.op = "run_detector"
    /\ \E i, j \in 1..Len(det.observed) :
          LET si == det.observed[i][1]
              sj == det.observed[j][1]
          IN  /\ PassesFilter(si) /\ PassesFilter(sj)
              /\ Flagged(det.results, si)
              /\ ~Flagged(det.results, sj)
              /\ RLt(R(0), MeanOf(det.baseline, si))
              /\ RLt(R(0), MeanOf(det.baseline, sj))
              /\ RLt(RAbs(DeviationPct(det.observed[i][2], MeanOf(det.baseline, si))),
                     RAbs(DeviationPct(det.observed[j][2], MeanOf(det.baseline, sj))))

\* C4 as stated: every observed signal without a baseline entry and with a
\* nonzero count produces an anomaly entry (and trojan_detected = true).
C4_NoBaselineAlwaysAnomalous ==
    DetectorRan =>
        \A i \in 1..Len(det.observed) :
            (det.observed[i][1] \notin DOMAIN det.baseline
                /\ det.observed[i][2] # 0) =>
                /\ Flagged(det.detector_results, det.observed[i][1])
                /\ det.detector_results.decision.trojan_detected

\* C4 amended: for every observed signal that passes the name filter and has
\* no baseline entry, mean 0, std 0 and threshold 0 are substituted: a
\* nonzero count produces an anomaly entry with mean 0, z-score 0 and
\* deviation 100 (and trojan_detected = true), a zero count produces none.
C4_NoBaselineAnomalousIfNotFiltered ==
    DetectorRan =>
        \A i \in 1..Len(det.observed) :
            LET signal == det.observed[i][1]
                obs_val == det.observed[i][2]
                res == det.detector_results
            IN  (signal \notin DOMAIN det.baseline /\ PassesFilter(signal)) =>
                    IF obs_val # 0
                    THEN /\ res.decision.trojan_detected
                         /\ det.results.decision.trojan_detected
                         /\ \E k \in 1..Len(res.anomalies) :
                               /\ res.anomalies[k].signal = signal
                               /\ res.anomalies[k].observed = obs_val
                               /\ res.anomalies[k].mean = R(0)
                               /\ res.anomalies[k].z_score = R(0)
                               /\ res.anomalies[k].deviation = R(100)
                    ELSE ~Flagged(res, signal)

\* C4 witness: the payload signal, absent from a non-empty baseline, observed
\* with a nonzero count and flagged as the only anomaly.
C4_Witness ==
    /\ det.op = "analysis_variant"
    /\ DOMAIN det.baseline # {}
    /\ SigShadow \notin DOMAIN det.baseline
    /\ Len(det.results.anomalies) = 1
    /\ det.results.anomalies[1].signal = SigShadow
    /\ det.results.anomalies[1].observed = 3
    /\ det.results.anomalies[1].class = "trojan_internal"

IsTested(signal) == \E k \in 1..Len(det.tested) : det.tested[k] = signal

\* C5 as stated: no observed signal whose name contains "shadow_" is dropped
\* before the anomaly test, whatever else its name contains or starts with.
C5_ShadowNeverDropped ==
    DetectorRan =>
        \A i \in 1..Len(det.observed) :
            PayloadClass(det.observed[i][1]) => IsTested(det.observed[i][1])

\* C5 amended: an observed signal whose name contains "shadow_" reaches the
\* anomaly test, with or without a baseline entry and whether or not its name
\* contains "u_trojan", unless its name starts with one of the two testbench
\* prefixes, in which case it is dropped.
C5_ShadowDroppedOnlyByTestbenchPrefix ==
    DetectorRan =>
        \A i \in 1..Len(det.observed) :
            PayloadClass(det.observed[i][1]) =>
                (IsTested(det.observed[i][1])
                    <=> ~TestbenchOnly(det.observed[i][1]))

\* C5 witness: a "shadow_" signal inside u_trojan that has a baseline entry
\* reached the anomaly test and was flagged.
C5_Witness ==
    /\ det.op = "run_detector"
    /\ SigShadow \in DOMAIN det.baseline
    /\ IsTested(SigShadow)
    /\ Flagged(det.results, SigShadow)

\* total of the clean run as the baseline file's per-signal entries give it
RECURSIVE SumOfMeans(_, _)
SumOfMeans(signals, S) ==
    IF S = {} THEN R(0)
    ELSE LET x == CHOOSE x \in S : TRUE
         IN  RAdd(signals[x].mean, SumOfMeans(signals, S \ {x}))

RECURSIVE SumObserved(_)
SumObserved(observed) ==
    IF observed = <<>> THEN 0 ELSE Head(observed)[2] + SumObserved(Tail(observed))

\* 2 * observed total > 3 * clean total
ExceedsCleanActivity ==
    LET clean == SumOfMeans(baselineFile.signals, DOMAIN baselineFile.signals)
    IN  2 * SumObserved(det.observed) * clean[2] > 3 * clean[1]

\* C6: in the analysis of a non-clean variant the final trojan_detected is
\* (verdict of run_detector) OR (observed total > 1.5 x clean total); when
\* the total does not exceed the bound the result is the detector's own.
C6_GlobalOverrideOneDirectional ==
    det.op = "analysis_variant" =>
        /\ det.results.decision.trojan_detected =
              (det.detector_results.decision.trojan_detected
                  \/ ExceedsCleanActivity)
        /\ ~ExceedsCleanActivity => det.results = det.detector_results
        /\ det.results.anomalies = det.detector_results.anomalies

\* C6 witness: no per-signal anomaly, yet the verdict is forced to true.
C6_Witness ==
    /\ det.op = "analysis_variant"
    /\ det.detector_results.anomalies = <<>>
    /\ ~det.detector_results.decision.trojan_detected
    /\ det.results.decision.trojan_detected
    /\ Len(det.tested) >= 1
    /\ det.clean_global[1] > 0

\* C7: the anomaly list is sorted in descending order of the absolute
\* percentage deviation, and rank is the 1-based position in the list.
C7_AnomaliesSortedAndRanked ==
    DetectorRan =>
        LET an == det.results.anomalies
        IN  /\ \A k \in 1..Len(an) : an[k].rank = k
            /\ \A k \in 1..(Len(an) - 1) :
                  RLe(RAbs(an[k + 1].deviation), RAbs(an[k].deviation))

\* C7 witness: two anomalies whose order in the result is the reverse of the
\* order in which the signals were observed, the larger deviation first and
\* the second one a negative deviation (-66.67 %) that counts by its size.
C7_Witness ==
    /\ det.op = "run_detector"
    /\ Len(det.results.anomalies) = 2
    /\ det.results.anomalies[1].signal = det.observed[2][1]
    /\ det.results.anomalies[2].signal = det.observed[1][1]
    /\ RLt(RAbs(det.results.anomalies[2].deviation),
           RAbs(det.results.anomalies[1].deviation))
    /\ det.results.anomalies[2].deviation = <<-6667, 100>>

-----------------------------------------------------------------------------
(* Properties of BaselineModel                                             *)

ValidModel(m) ==
    /\ m.samples > 1
    /\ m.variance[1] >= 0
    /\ m.converged = TRUE

\* C9: construction (directly, through from_dict or through load) is rejected
\* for samples <= 1, for variance < 0 and for converged = false, each with its
\* own error; every BaselineModel that exists has samples > 1, variance >= 0
\* and converged = true.
C9_ConstructionValidates ==
    /\ bm.obj # NoObj => ValidModel(bm.obj)
    /\ bm.copy # NoObj => ValidModel(bm.copy)
    /\ (bm.op \in {"new", "from_dict", "load"} /\ bm.args # NoArgs) =>
          LET a == bm.args
              made == IF bm.op = "new" THEN bm.obj ELSE bm.copy
          IN  /\ a.samples <= 1 =>
                    bm.error = "Baseline must be estimated from more than one sample"
              /\ (a.samples > 1 /\ a.variance[1] < 0) =>
                    bm.error = "Variance must be non-negative"
              /\ (a.samples > 1 /\ a.variance[1] >= 0 /\ ~a.converged) =>
                    bm.error = "Baseline model cannot be created without convergence"
              /\ (a.samples <= 1 \/ a.variance[1] < 0 \/ ~a.converged) =>
                    made = NoObj
              /\ (a.samples > 1 /\ a.variance[1] >= 0 /\ a.converged) =>
                    (bm.error = None /\ made # NoObj)

\* C9 witness: load of a document whose variance is negative was rejected
\* with the variance error, while a valid model built directly exists.
C9_Witness ==
    /\ bm.op = "load"
    /\ bm.args # NoArgs
    /\ bm.args.variance = R(-1)
    /\ bm.error = "Variance must be non-negative"
    /\ bm.copy = NoObj
    /\ bm.obj # NoObj

FiveFields == {"mean", "variance", "samples", "converged", "metadata"}

\* C10, state part: as_dict returns exactly the five fields with the model's
\* values, and from_dict of that dict succeeds and yields a model with the
\* same five field values.
C10_RoundTripState ==
    /\ bm.op = "as_dict" =>
          /\ DOMAIN bm.data = FiveFields
          /\ bm.data["mean"] = bm.obj.mean
          /\ bm.data["variance"] = bm.obj.variance
          /\ bm.data["samples"] = bm.obj.samples
          /\ bm.data["converged"] = bm.obj.converged
          /\ bm.data["metadata"] = bm.obj.metadata
    /\ (bm.op = "from_dict" /\ bm.data # NoDict /\ bm.input = bm.data) =>
          /\ bm.error = None
          /\ bm.copy # NoObj
          /\ bm.copy.mean = bm.obj.mean
          /\ bm.copy.variance = bm.obj.variance
          /\ bm.copy.samples = bm.obj.samples
          /\ bm.copy.converged = bm.obj.converged
          /\ bm.copy.metadata = bm.obj.metadata

\* C10, frame part: a step that is as_dict or save leaves the model's fields
\* as they were.
C10_ReadOnlyStep ==
    (bm'.op \in {"as_dict", "save"}) => (bm'.obj = bm.obj /\ bm'.copy = bm.copy)

\* C10: BaselineModel round-trips exactly through its structured form, and
\* as_dict and save leave the model's fields unchanged.
C10_RoundTrip == []C10_RoundTripState /\ [][C10_ReadOnlyStep]_vars

\* C10 witness: from_dict applied to the dict as_dict returned for a model
\* with non-empty metadata built an equal model.
C10_Witness ==
    /\ bm.op = "from_dict"
    /\ bm.data # NoDict
    /\ bm.input = bm.data
    /\ bm.copy = bm.obj
    /\ bm.obj.metadata = [backend |-> "iverilog"]
    /\ bm.obj.mean = <<21, 2>>

-----------------------------------------------------------------------------
(* Properties of the aggregate decision                                    *)

\* the observations of the last call that satisfy both statistical criteria
MeetsBothCriteria ==
    { i \in 1..Len(hyp.observations) :
        /\ RLt(hyp.z_threshold, RAbs(hyp.result.stats[i].z_score))
        /\ RLt(hyp.confidence_level, hyp.result.stats[i].confidence) }

\* C8: an observation tested against the global baseline is flagged if and
\* only if both |z| > z_threshold and confidence > confidence_level hold, so
\* the number of flagged observations is the number that meet both criteria.
C8_AggregateNeedsBothCriteria ==
    (hyp.op = "estimate_false_positive_rate" /\ hyp.result.error = None) =>
        hyp.result.false_positives = Cardinality(MeetsBothCriteria)


-----------------------------------------------------------------------------
(* run_monte_carlo (analysis/monte_carlo/mc_engine.py), statement by        *)
(* statement: mc.pc is the position of the run                              *)

MaxBatchSize == 2    \* largest configured batch_size
MaxBatches == 3      \* largest configured max_batches

\* mc_cfg, lines 229-238; non-positive values are what a user can configure
McConfigs ==
    [ batch_size : (-1)..MaxBatchSize, max_batches : (-1)..MaxBatches,
      mean_eps : {<<0, 1>>, <<1, 2>>}, var_eps : {<<1, 2>>},
      stable_batches : {1, 2}, normalization : {"per_cycle"} ]

\* the observable X of one sample (run_single_sample, lines 171-179)
McSampleValues == {1, 2}

\* lines 244, 247: entering batch number idx of range(1, max_batches + 1);
\* range(batch_size) is empty when batch_size <= 0
EnterBatch(m, idx) ==
    IF idx > m.cfg.max_batches
    THEN [m EXCEPT !.pc = "finish"]
    ELSE [m EXCEPT !.batch_idx = <<idx>>, !.in_batch = 0,
                   !.pc = IF m.cfg.batch_size > 0 THEN "sample"
                          ELSE "batch_end"]

\* lines 277-286: the baseline dict the engine builds
EngineBaseline(m) ==
    ("mean" :> m.tracker.mean)
      @@ ("variance" :> IF m.tracker.count >= 2 THEN Variance(m.tracker)
                        ELSE NoFloat)
      @@ ("samples" :> m.tracker.count)
      @@ ("converged" :> m.converged)
      @@ ("backend" :> m.backend)
      @@ ("batch_size" :> m.cfg.batch_size)
      @@ ("batches_run" :> m.batch_idx[1])
      @@ ("normalization" :> m.cfg.normalization)

\* lines 219-242: configuration files, backend, tracker, then the first batch
McStart ==
    /\ mc.pc = "none"
    /\ ana.pc = "none"
    /\ \E cfg \in McConfigs, cfg_found \in BOOLEAN, out \in BOOLEAN :
          LET err == TrackerInitError(cfg.mean_eps, cfg.var_eps,
                                      cfg.stable_batches)
              base == [ pc |-> "start", cfg |-> cfg, backend |-> "iverilog",
                        output_path |-> out, tracker |-> TrackerIdle,
                        batch_idx |-> <<>>, in_batch |-> 0,
                        converged |-> FALSE, samples_run |-> 0,
                        checks |-> 0, file |-> NoFile, result |-> NoDict, error |-> None ]
          IN  mc' = IF ~cfg_found
                    THEN [base EXCEPT !.pc = "failed",
                                      !.error = "Configuration file not found"]
                    ELSE IF err # None
                    THEN [base EXCEPT !.pc = "failed", !.error = err]
                    ELSE EnterBatch(
                           [base EXCEPT !.tracker =
                               NewTracker(cfg.mean_eps, cfg.var_eps,
                                          cfg.stable_batches)], 1)
    /\ UNCHANGED <<tk, tkCalls, det, baselineFile, bm, hyp, vcd, ana, tkSamples, be>>

SampleFailed_WritesPartial(m) ==
    [m EXCEPT !.pc = "failed",
              !.samples_run = m.samples_run + 1,
              !.error = "simulation sample failed",
              !.file = IF m.output_path THEN YamlDump(EngineBaseline(m))
                       ELSE NoFile]

\* lines 248-252: run_single_sample raises and nothing catches it
SampleFailed(m) ==
    [m EXCEPT !.pc = "failed",
              !.samples_run = m.samples_run + 1,
              !.error = "simulation sample failed"]

\* lines 248-254: one sample of the inner loop; the simulation or the metric
\* may raise, which ends the run
McSample ==
    /\ mc.pc = "sample"
    /\ \/ \E x \in McSampleValues :
            LET m1 == [mc EXCEPT !.tracker = WelfordUpdate(mc.tracker, x),
                                 !.in_batch = mc.in_batch + 1,
                                 !.samples_run = mc.samples_run + 1]
            IN  mc' = IF m1.in_batch >= mc.cfg.batch_size
                      THEN [m1 EXCEPT !.pc = "batch_end"]
                      ELSE m1
       \/ mc' = SampleFailed(mc)
    /\ UNCHANGED <<tk, tkCalls, det, baselineFile, bm, hyp, vcd, ana, tkSamples, be>>

\* lines 256-269: status, convergence check, break or next batch
McBatchEnd ==
    /\ mc.pc = "batch_end"
    /\ LET t1 == CheckConvergence(mc.tracker)
           m1 == [mc EXCEPT !.tracker = t1, !.checks = mc.checks + 1]
       IN  mc' = IF t1.last_result
                 THEN [m1 EXCEPT !.converged = TRUE, !.pc = "finish"]
                 ELSE EnterBatch(m1, mc.batch_idx[1] + 1)
    /\ UNCHANGED <<tk, tkCalls, det, baselineFile, bm, hyp, vcd, ana, tkSamples, be>>

\* lines 271-294: build the baseline (batch_idx is unbound when the batch loop
\* never ran), write it when an output path was given, return it
McFinish ==
    /\ mc.pc = "finish"
    /\ mc' = IF mc.batch_idx = <<>>
             THEN [mc EXCEPT !.pc = "failed",
                             !.error = "UnboundLocalError: batch_idx"]
             ELSE [mc EXCEPT !.pc = "returned",
                             !.result = EngineBaseline(mc),
                             !.file = IF mc.output_path
                                      THEN YamlDump(EngineBaseline(mc))
                                      ELSE NoFile]
    /\ UNCHANGED <<tk, tkCalls, det, baselineFile, bm, hyp, vcd, ana, tkSamples, be>>

InitMonteCarlo ==
    /\ tk = TrackerIdle
    /\ tkCalls = <<>>
    /\ det = DetIdle
    /\ baselineFile = NoFile
    /\ bm = BmIdle
    /\ hyp = HypIdle
    /\ vcd = VcdIdle
    /\ mc = McIdle
    /\ ana = AnIdle
    /\ tkSamples = <<>>
    /\ be = BeIdle

NextMonteCarlo == McStart \/ McSample \/ McBatchEnd \/ McFinish

SpecMonteCarlo == InitMonteCarlo /\ [][NextMonteCarlo]_vars

-----------------------------------------------------------------------------
(* Properties of the persisted baseline format                              *)

\* C11: every baseline file the Monte Carlo engine writes after convergence
\* consists of exactly the fields mean, variance, samples, converged,
\* metadata, and BaselineModel.load (yaml.safe_load, then from_dict) accepts it
C11_EngineBaselineLoads ==
    (mc.pc = "returned" /\ mc.file.exists /\ mc.converged) =>
        /\ DOMAIN YamlLoad(mc.file)
             = {RequiredFields[i] : i \in 1..Len(RequiredFields)}
        /\ FromDict(YamlLoad(mc.file)).error = None

-----------------------------------------------------------------------------
(* Properties of the z-score under a zero-spread baseline                   *)

\* the std the baseline holds for a signal: the entry's std, 0 when the entry
\* has none or when there is no entry (the zero-baseline substitution)
StdOf(baseline, signal) ==
    IF signal \in DOMAIN baseline /\ "std" \in DOMAIN baseline[signal]
    THEN baseline[signal].std
    ELSE R(0)

ObservedValueOf(observed, signal) ==
    observed[CHOOSE i \in 1..Len(observed) : observed[i][1] = signal][2]

\* C12: a z-score is never silently reported as zero because the baseline has
\* no spread: the per-signal detector reports no z_score of 0 for an
\* observation that differs from the mean of a baseline whose std is 0, the
\* zero-baseline substitution included.
C12_NoSilentZeroZScore ==
    DetectorRan =>
        \A k \in 1..Len(det.detector_results.anomalies) :
            LET a == det.detector_results.anomalies[k]
                mean == MeanOf(det.baseline, a.signal)
                obs_val == ObservedValueOf(det.observed, a.signal)
            IN  (StdOf(det.baseline, a.signal) = R(0) /\ R(obs_val) # mean)
                    => a.z_score # R(0)

-----------------------------------------------------------------------------
(* _parse_vcd (sim/backends/iverilog.py lines 174-285; vivado.py lines      *)
(* 218-293 is the same code): one parse, line by line.                      *)
(*                                                                         *)
(* A line is the stripped text split at its blanks: a sequence of words,    *)
(* a word a sequence of one-character strings; words of a line are taken    *)
(* to be separated by single blanks.                                        *)

MaxBodyLines == 4    \* lines of a log after its header lines

W_var == <<"$", "v", "a", "r">>
W_wire == <<"w", "i", "r", "e">>
W_end == <<"$", "e", "n", "d">>
W_enddefinitions ==
    <<"$", "e", "n", "d", "d", "e", "f", "i", "n", "i", "t", "i", "o", "n", "s">>
W_scope == <<"$", "s", "c", "o", "p", "e">>
W_module == <<"m", "o", "d", "u", "l", "e">>
W_clk == <<"c", "l", "k">>
W_bus == <<"b", "u", "s">>
W_tb == <<"t", "b">>

\* header lines
LineVarClk == <<W_var, W_wire, <<"1">>, <<"!">>, W_clk, W_end>>
LineVarBus == <<W_var, W_wire, <<"4">>, <<"&">>, W_bus, W_end>>
LineVarShort == <<W_var, W_wire, <<"1">>>>
LineScope == <<W_scope, W_module, W_tb, W_end>>
LineEndDefs == <<W_enddefinitions, W_end>>

\* body lines: a timestamp, an empty line, a keyword, scalar records of the
\* symbols ! and ?, vector records of the symbol &, a vector without symbol
LineTime == <<<<"#", "5">>>>
LineEmpty == <<>>
LineKeyword == <<W_end>>
LineClk0 == <<<<"0", "!">>>>
LineClk1 == <<<<"1", "!">>>>
LineBus0 == <<<<"b", "0">>, <<"&">>>>
LineBus1 == <<<<"b", "1">>, <<"&">>>>
LineUnk0 == <<<<"0", "?">>>>
LineUnk1 == <<<<"1", "?">>>>
LineBareVector == <<<<"b", "1">>>>

\* a second declaration of the name clk under the symbol %, and its records
LineVarClkAlias == <<W_var, W_wire, <<"1">>, <<"%">>, W_clk, W_end>>
LineAlias0 == <<<<"0", "%">>>>
LineAlias1 == <<<<"1", "%">>>>

\* the header lines of the logs parsed: with and without the clock, with and
\* without the end-of-header marker, with a truncated declaration, empty
Headers ==
    { <<LineVarClk, LineEndDefs>>,
      <<LineScope, LineVarClk, LineVarBus, LineEndDefs>>,
      <<LineVarBus, LineEndDefs>>,
      <<LineVarClk, LineVarBus>>,
      <<LineVarShort, LineEndDefs>>,
      <<>> }

BodyLines ==
    { LineTime, LineEmpty, LineKeyword, LineClk0, LineClk1, LineBus0,
      LineBus1, LineUnk0, LineUnk1, LineBareVector }

\* a header that declares the name clk twice, and the body lines of such a log
AliasHeader == <<LineVarClk, LineVarClkAlias, LineEndDefs>>
AliasBodyLines == {LineTime, LineClk0, LineClk1, LineAlias0, LineAlias1}

\* the files parsed: header lines and the lines the body is made of
VcdFiles ==
    { [header |-> h, lines |-> BodyLines] : h \in Headers }
       \cup { [header |-> AliasHeader, lines |-> AliasBodyLines] }

ClockNames == {W_clk}

\* None as a last value (values are sequences of single characters)
NoValue == <<"None">>
\* None as clock_id (an identifier has at least one word)
NoId == <<>>
NoResult == [absent |-> TRUE]

\* str.startswith(prefix) for a prefix without blanks
LineStartsWith(line, prefix) ==
    /\ line # <<>>
    /\ Len(line[1]) >= Len(prefix)
    /\ SubSeq(line[1], 1, Len(prefix)) = prefix

\* line[0]
FirstChar(line) == line[1][1]

\* line[1:], line 252: the rest of the line, kept line-shaped
RestOfLine(line) == <<Tail(line[1])>> \o Tail(line)

\* a word used as a key (parts[3], parts[1])
IdOfWord(w) == <<w>>

\* dict.get(key), None when absent
LastValueOf(last_value, signal_id) ==
    IF signal_id \in DOMAIN last_value THEN last_value[signal_id] ELSE NoValue

\* signal_to_id.get(clock_name), line 236
ClockLookup_Defaulted(signal_to_id, clock_name) ==
    IF clock_name \in DOMAIN signal_to_id THEN signal_to_id[clock_name]
    ELSE IdOfWord(<<"!">>)

ClockLookup(signal_to_id, clock_name) ==
    IF clock_name \in DOMAIN signal_to_id THEN signal_to_id[clock_name]
    ELSE NoId

ParseFailed(v, line, err) ==
    [v EXCEPT !.pc = "failed", !.error = err, !.log = Append(v.log, line)]

DeclareSignal_KeepsFirst(signal_to_id, name, id) ==
    signal_to_id @@ (name :> id)

\* line 229: signal_to_id[signal_name] = signal_id
DeclareSignal(signal_to_id, name, id) ==
    (name :> id) @@ signal_to_id

\* lines 222-241: one line while in_definitions
HeaderLine(v, line) ==
    IF LineStartsWith(line, W_var) /\ Len(line) < 5
    THEN ParseFailed(v, line, "IndexError: list index out of range")
    ELSE LET declared == LineStartsWith(line, W_var)
             v1 == IF declared
                   THEN [v EXCEPT
                           !.signal_to_id =
                               DeclareSignal(v.signal_to_id, line[5],
                                             IdOfWord(line[4])),
                           !.last_value =
                               (IdOfWord(line[4]) :> NoValue) @@ v.last_value]
                   ELSE v
         IN  IF line = LineEndDefs
             THEN LET clock_id == ClockLookup(v1.signal_to_id, v1.clock_name)
                  IN  IF clock_id = NoId
                      THEN ParseFailed([v1 EXCEPT !.in_definitions = FALSE],
                                       line, "Clock signal not found in VCD")
                      ELSE [v1 EXCEPT !.in_definitions = FALSE,
                                      !.clock_id = clock_id,
                                      !.log = Append(v.log, line)]
             ELSE [v1 EXCEPT !.log = Append(v.log, line)]

ToggleIncrement_CountsFirst(prev, value) ==
    IF prev # value THEN 1 ELSE 0

\* lines 265-266
ToggleIncrement(prev, value) ==
    IF prev # NoValue /\ prev # value THEN 1 ELSE 0

\* lines 263-275: a value change of signal_id to value
ValueChange(v, line, value, signal_id) ==
    LET prev == LastValueOf(v.last_value, signal_id)
    IN  [v EXCEPT
           !.total_toggles = v.total_toggles + ToggleIncrement(prev, value),
           !.last_value = (signal_id :> value) @@ v.last_value,
           !.cycles = IF signal_id = v.clock_id /\ prev = <<"0">>
                         /\ value = <<"1">>
                      THEN v.cycles + 1 ELSE v.cycles,
           !.log = Append(v.log, line)]

\* lines 246-275: one line after the header
BodyLine(v, line) ==
    IF line = <<>> \/ LineStartsWith(line, <<"#">>)
    THEN [v EXCEPT !.log = Append(v.log, line)]
    ELSE IF FirstChar(line) \in {"0", "1", "x", "z"}
    THEN ValueChange(v, line, <<FirstChar(line)>>, RestOfLine(line))
    ELSE IF LineStartsWith(line, <<"b">>)
    THEN IF Len(line) < 2
         THEN ParseFailed(v, line, "IndexError: list index out of range")
         ELSE ValueChange(v, line, Tail(line[1]), IdOfWord(line[2]))
    ELSE [v EXCEPT !.log = Append(v.log, line)]

\* lines 216-275: one iteration of the loop over the file's lines
ParseLine(v, line) ==
    IF v.in_definitions THEN HeaderLine(v, line) ELSE BodyLine(v, line)

EndOfParse_NoCycleCheck(v) ==
    [v EXCEPT !.pc = "returned",
              !.result = [total_toggles |-> v.total_toggles,
                          cycles |-> v.cycles]]

\* lines 277-285: after the last line
EndOfParse(v) ==
    IF v.cycles = 0
    THEN [v EXCEPT !.pc = "failed", !.error = "No clock cycles detected"]
    ELSE [v EXCEPT !.pc = "returned",
                   !.result = [total_toggles |-> v.total_toggles,
                               cycles |-> v.cycles]]

\* VivadoBackend._parse_vcd, vivado.py 218-293, on a record w of its locals

VivadoFailed(w, err) == [w EXCEPT !.pc = "failed", !.error = err]

\* vivado.py 245-262: one line while in_defs
VivadoHeaderLine(w, clock_name, line) ==
    IF LineStartsWith(line, W_var) /\ Len(line) < 5
    THEN VivadoFailed(w, "IndexError: list index out of range")
    ELSE LET w1 == IF LineStartsWith(line, W_var)
                   THEN [w EXCEPT
                           !.signal_to_id =
                               (line[5] :> IdOfWord(line[4])) @@ w.signal_to_id,
                           !.last_value =
                               (IdOfWord(line[4]) :> NoValue) @@ w.last_value]
                   ELSE w
         IN  IF line = LineEndDefs
             THEN LET clock_id ==
                          IF clock_name \in DOMAIN w1.signal_to_id
                          THEN w1.signal_to_id[clock_name] ELSE NoId
                  IN  IF clock_id = NoId
                      THEN VivadoFailed([w1 EXCEPT !.in_defs = FALSE],
                                        "Clock not found in VCD")
                      ELSE [w1 EXCEPT !.in_defs = FALSE, !.clock_id = clock_id]
             ELSE w1

VivadoCycleIncrement_AnyRise(sig_id, clock_id, prev, value) ==
    IF sig_id = clock_id /\ value = <<"1">> THEN 1 ELSE 0

\* vivado.py 283-285
VivadoCycleIncrement(sig_id, clock_id, prev, value) ==
    IF sig_id = clock_id /\ prev = <<"0">> /\ value = <<"1">> THEN 1 ELSE 0

\* vivado.py 277-285: a value change of sig_id to value
VivadoValueChange(w, value, sig_id) ==
    LET prev == IF sig_id \in DOMAIN w.last_value THEN w.last_value[sig_id]
                ELSE NoValue
    IN  [w EXCEPT
           !.total_toggles = IF prev # NoValue /\ prev # value
                             THEN w.total_toggles + 1 ELSE w.total_toggles,
           !.last_value = (sig_id :> value) @@ w.last_value,
           !.cycles = w.cycles
                        + VivadoCycleIncrement(sig_id, w.clock_id, prev, value)]

\* vivado.py 264-285: one line after the header
VivadoBodyLine(w, line) ==
    IF line = <<>> \/ LineStartsWith(line, <<"#">>)
    THEN w
    ELSE IF FirstChar(line) \in {"0", "1", "x", "z"}
    THEN VivadoValueChange(w, <<FirstChar(line)>>, RestOfLine(line))
    ELSE IF LineStartsWith(line, <<"b">>)
    THEN IF Len(line) < 2
         THEN VivadoFailed(w, "IndexError: list index out of range")
         ELSE VivadoValueChange(w, Tail(line[1]), IdOfWord(line[2]))
    ELSE w

\* vivado.py 242-285: one iteration of the loop over the file's lines
VivadoParseLine(w, clock_name, line) ==
    IF w.pc # "reading" THEN w
    ELSE IF w.in_defs THEN VivadoHeaderLine(w, clock_name, line)
    ELSE VivadoBodyLine(w, line)

\* vivado.py 287-293: after the last line
VivadoEndOfParse(w) ==
    IF w.pc # "reading" THEN w
    ELSE IF w.cycles = 0
    THEN VivadoFailed(w, "No clock cycles detected in VCD")
    ELSE [w EXCEPT !.pc = "returned",
                   !.result = [total_toggles |-> w.total_toggles,
                               cycles |-> w.cycles]]

\* vivado.py 227-240: the file is looked up and the locals are initialised
VivadoOpen(found) ==
    [ pc |-> IF found THEN "reading" ELSE "failed",
      error |-> IF found THEN None ELSE "VCD file not found",
      in_defs |-> TRUE,
      signal_to_id |-> [x \in {} |-> NoId],
      last_value |-> [x \in {} |-> NoValue],
      total_toggles |-> 0, cycles |-> 0, clock_id |-> NoId,
      result |-> NoResult ]

\* lines 197-214: the file is opened and the locals are initialised; the
\* Vivado parser is given the same file and clock name
VcdOpen ==
    /\ vcd.pc = "none"
    /\ \E file \in VcdFiles, clock_name \in ClockNames, found \in BOOLEAN :
          vcd' = [ pc |-> IF found THEN "reading" ELSE "failed",
                   error |-> IF found THEN None ELSE "VCD file not found",
                   clock_name |-> clock_name,
                   pending |-> IF found THEN file.header ELSE <<>>,
                   lines |-> IF found THEN file.lines ELSE {},
                   body_lines |-> 0,
                   log |-> <<>>,
                   in_definitions |-> TRUE,
                   signal_to_id |-> [x \in {} |-> NoId],
                   last_value |-> [x \in {} |-> NoValue],
                   total_toggles |-> 0, cycles |-> 0,
                   clock_id |-> NoId,
                   result |-> NoResult,
                   viv |-> VivadoOpen(found) ]
    /\ UNCHANGED <<tk, tkCalls, det, baselineFile, bm, hyp, mc, ana, tkSamples, be>>

\* the next line of the file, read by both parsers: first the header lines,
\* then any body line
VcdLine ==
    /\ vcd.pc = "reading"
    /\ IF vcd.pending # <<>>
       THEN vcd' = [ParseLine([vcd EXCEPT !.pending = Tail(vcd.pending)],
                              Head(vcd.pending))
                      EXCEPT !.viv = VivadoParseLine(vcd.viv, vcd.clock_name,
                                                     Head(vcd.pending))]
       ELSE /\ vcd.body_lines < MaxBodyLines
            /\ \E line \in vcd.lines :
                  vcd' = [ParseLine(
                             [vcd EXCEPT !.body_lines = vcd.body_lines + 1],
                             line)
                          EXCEPT !.viv = VivadoParseLine(vcd.viv,
                                                         vcd.clock_name, line)]
    /\ UNCHANGED <<tk, tkCalls, det, baselineFile, bm, hyp, mc, ana, tkSamples, be>>

\* the file ends for both parsers
VcdEof ==
    /\ vcd.pc = "reading"
    /\ vcd.pending = <<>>
    /\ vcd' = [EndOfParse(vcd) EXCEPT !.viv = VivadoEndOfParse(vcd.viv)]
    /\ UNCHANGED <<tk, tkCalls, det, baselineFile, bm, hyp, mc, ana, tkSamples, be>>

InitParser ==
    /\ tk = TrackerIdle
    /\ tkCalls = <<>>
    /\ det = DetIdle
    /\ baselineFile = NoFile
    /\ bm = BmIdle
    /\ hyp = HypIdle
    /\ vcd = VcdIdle
    /\ mc = McIdle
    /\ ana = AnIdle
    /\ tkSamples = <<>>
    /\ be = BeIdle

NextParser == VcdOpen \/ VcdLine \/ VcdEof

SpecParser == InitParser /\ [][NextParser]_vars

-----------------------------------------------------------------------------
(* Properties of the parser, stated over the lines read (vcd.log)           *)

VcdOpened == vcd.pc # "none" /\ vcd.error # "VCD file not found"

\* position of the end-of-header marker in a log, 0 when it has none
MarkerIndex(log) ==
    IF \E i \in 1..Len(log) : log[i] = LineEndDefs
    THEN CHOOSE i \in 1..Len(log) :
            /\ log[i] = LineEndDefs
            /\ \A j \in 1..(i - 1) : log[j] # LineEndDefs
    ELSE 0

\* the body of a log: the lines after the marker
BodyOf(log) ==
    IF MarkerIndex(log) = 0 THEN <<>>
    ELSE SubSeq(log, MarkerIndex(log) + 1, Len(log))

\* the header of a log: the lines up to the marker, all lines when none
HeaderOf(log) ==
    IF MarkerIndex(log) = 0 THEN log ELSE SubSeq(log, 1, MarkerIndex(log))

\* value-change records as the format defines them: scalar <bit><symbol>,
\* vector b<bitstring> <symbol>
IsScalarRecord(line) ==
    line # <<>> /\ line[1][1] \in {"0", "1", "x", "z"}
IsVectorRecord(line) ==
    line # <<>> /\ line[1][1] = "b" /\ Len(line) >= 2
IsRecord(line) == IsScalarRecord(line) \/ IsVectorRecord(line)
RecordSymbol(line) ==
    IF IsScalarRecord(line) THEN <<Tail(line[1])>> \o Tail(line)
    ELSE <<line[2]>>
RecordValue(line) ==
    IF IsScalarRecord(line) THEN <<line[1][1]>> ELSE Tail(line[1])

\* record i of a body follows an earlier record of the same symbol, and the
\* latest such record carries a different value
ChangesValue(body, i) ==
    /\ IsRecord(body[i])
    /\ \E j \in 1..(i - 1) :
          /\ IsRecord(body[j])
          /\ RecordSymbol(body[j]) = RecordSymbol(body[i])
          /\ \A k \in (j + 1)..(i - 1) :
                ~(IsRecord(body[k])
                    /\ RecordSymbol(body[k]) = RecordSymbol(body[i]))
          /\ RecordValue(body[j]) # RecordValue(body[i])

ExpectedToggles(body) ==
    Cardinality({i \in 1..Len(body) : ChangesValue(body, i)})

\* C13: the toggle count the parser returns equals the number of body
\* value-change records for which an earlier value of the same symbol exists
\* and differs from the new value; a symbol's first value and a record
\* repeating the last-seen value add nothing.
C13_ToggleCountIsChangedRecords ==
    /\ VcdOpened => vcd.total_toggles = ExpectedToggles(BodyOf(vcd.log))
    /\ vcd.pc = "returned" =>
          vcd.result.total_toggles = ExpectedToggles(BodyOf(vcd.log))

C13_Witness ==
    /\ vcd.pc = "returned"
    /\ BodyOf(vcd.log) = <<LineClk0, LineClk1, LineClk1, LineBus1>>
    /\ vcd.result.total_toggles = 1

\* the symbols the header declares
DeclaredSymbols(log) ==
    { <<HeaderOf(log)[i][4]>> :
        i \in { j \in 1..Len(HeaderOf(log)) :
                  /\ LineStartsWith(HeaderOf(log)[j], W_var)
                  /\ Len(HeaderOf(log)[j]) >= 5 } }

\* a body without the records of undeclared symbols
RECURSIVE DeclaredOnly(_, _)
DeclaredOnly(body, declared) ==
    IF body = <<>> THEN <<>>
    ELSE IF IsRecord(Head(body)) /\ RecordSymbol(Head(body)) \notin declared
         THEN DeclaredOnly(Tail(body), declared)
         ELSE <<Head(body)>> \o DeclaredOnly(Tail(body), declared)

\* C14: a body record whose symbol the header did not declare is skipped: it
\* never changes total_toggles, so the count is that of the log without the
\* records of undeclared symbols.
C14_UndeclaredRecordsSkipped ==
    VcdOpened =>
        vcd.total_toggles =
            ExpectedToggles(DeclaredOnly(BodyOf(vcd.log),
                                         DeclaredSymbols(vcd.log)))

\* C15: a vector record that cannot be split into a value and a symbol is
\* skipped without failing the parse.
C15_UnsplittableVectorSkipped ==
    (/\ VcdOpened
     /\ BodyOf(vcd.log) # <<>>
     /\ vcd.log[Len(vcd.log)] = LineBareVector)
        => vcd.pc # "failed"

\* C16: a log that never contains the end-of-header marker makes the parse
\* fail: it returns no activity result, whatever lines the log contains.
C16_NoMarkerNoResult ==
    (VcdOpened /\ MarkerIndex(vcd.log) = 0) =>
        /\ vcd.pc \in {"reading", "failed"}
        /\ vcd.result = NoResult
        /\ vcd.total_toggles = 0 /\ vcd.cycles = 0

C16_Witness ==
    /\ vcd.pc = "failed"
    /\ vcd.error = "No clock cycles detected"
    /\ vcd.log = <<LineVarClk, LineVarBus, LineClk0, LineClk1, LineBus0,
                   LineBus1>>

\* the required clock name is the name of no declaration of the header
ClockUndeclared(log, clock_name) ==
    \A i \in 1..Len(HeaderOf(log)) :
        ~(/\ LineStartsWith(HeaderOf(log)[i], W_var)
          /\ Len(HeaderOf(log)[i]) >= 5
          /\ HeaderOf(log)[i][5] = clock_name)

\* C17: when the required clock name matches no declared variable the parse
\* fails at the end-of-header marker: no body line is read, nothing is
\* counted and no result is returned.
C17_UnknownClockFailsAtHeaderEnd ==
    (/\ VcdOpened
     /\ MarkerIndex(vcd.log) > 0
     /\ ClockUndeclared(vcd.log, vcd.clock_name)) =>
        /\ vcd.pc = "failed"
        /\ vcd.error = "Clock signal not found in VCD"
        /\ BodyOf(vcd.log) = <<>>
        /\ vcd.total_toggles = 0 /\ vcd.cycles = 0
        /\ \A id \in DOMAIN vcd.last_value : vcd.last_value[id] = NoValue
        /\ vcd.result = NoResult

C17_Witness ==
    /\ vcd.pc = "failed"
    /\ vcd.error = "Clock signal not found in VCD"
    /\ vcd.log = <<LineVarBus, LineEndDefs>>
    /\ vcd.clock_name = W_clk

-----------------------------------------------------------------------------
(* Properties of ConvergenceTracker construction                            *)

\* C19: construction fails with a configuration error whenever mean_eps <= 0,
\* var_eps <= 0 or stable_batches <= 0, and only then; the constructor itself
\* raises, so a tracker that update or check_convergence can be called on
\* always has positive tolerances and a positive stable_batches.
C19_BadConfigurationNeverConstructs ==
    tk.state # "none" =>
        LET bad == \/ RLe(tk.mean_eps, R(0))
                   \/ RLe(tk.var_eps, R(0))
                   \/ tk.stable_batches_required <= 0
        IN  /\ bad <=> tk.state = "error"
            /\ tk.state = "error" =>
                  /\ tk.error \in {"Convergence tolerances must be positive",
                                   "stable_batches must be positive"}
                  /\ "count" \notin DOMAIN tk
                  /\ tkCalls = <<>>
            /\ tk.state = "live" =>
                  /\ RLt(R(0), tk.mean_eps) /\ RLt(R(0), tk.var_eps)
                  /\ tk.stable_batches_required > 0

C19_Witness ==
    /\ tk.state = "error"
    /\ tk.error = "stable_batches must be positive"
    /\ tk.stable_batches_required = 0
    /\ tk.mean_eps = <<1, 2>> /\ tk.var_eps = <<2, 1>>

-----------------------------------------------------------------------------
(* Properties of the pre-flight configuration checks                        *)

\* C20: non-positive batch counts are rejected before the run: a Monte Carlo
\* run configured with batch_size <= 0 or max_batches <= 0 ends in an error,
\* without a simulation sample, a returned baseline or an output file.
C20_NonPositiveBatchCountsRejected ==
    (/\ mc.pc \in {"returned", "failed"}
     /\ mc.error # "Configuration file not found"
     /\ (mc.cfg.batch_size <= 0 \/ mc.cfg.max_batches <= 0)) =>
        /\ mc.pc = "failed"
        /\ mc.samples_run = 0
        /\ mc.result = NoDict
        /\ ~mc.file.exists

-----------------------------------------------------------------------------
(* main of scripts/run_analysis_from_vcd.py, statement by statement: ana.pc *)
(* is the position of the run; the baseline file is baselineFile.           *)
(* extract_toggle_counts is imported from analysis/metrics/toggle_metric.py *)
(* but not defined there: its outcome is taken from the specification's     *)
(* parser (a map of per-signal toggle counts, or a fatal error).            *)

MaxRuns == 2         \* runs of the analysis script, one after the other

AnVariants == {"clean", "v1"}

\* the per-signal toggle counts an extraction returns
AnToggles == CleanRuns

\* lines 41-59: arguments, output directories, toggle extraction
AnExtract ==
    /\ mc.pc = "none"
    /\ ana.pc \in {"none", "failed"}
    /\ IF ana.pc = "none" THEN TRUE ELSE ana.runs < MaxRuns
    /\ \E variant \in AnVariants :
          LET base == [ pc |-> "extracted", variant |-> variant,
                        runs |-> IF ana.pc = "none" THEN 1 ELSE ana.runs + 1,
                        extracted |-> FALSE, toggles |-> <<>>,
                        total_activity |-> 0,
                        baseline |-> NoFile,
                        wrote_baseline |-> FALSE,
                        results |-> NoResult,
                        failed_at |-> "none", error |-> None ]
          IN  \/ \E toggles \in AnToggles :
                    ana' = [base EXCEPT
                              !.extracted = TRUE,
                              !.toggles = toggles,
                              !.total_activity =
                                  TotalActivity(toggles, Len(toggles))]
              \/ ana' = [base EXCEPT !.pc = "failed",
                                     !.failed_at = "extract",
                                     !.error = "toggle extraction failed"]
    /\ UNCHANGED <<tk, tkCalls, det, baselineFile, bm, hyp, vcd, mc, tkSamples, be>>

\* lines 64-79 (clean: build and write the baseline) and lines 86-93 (any
\* other variant: load it, or fail when the file does not exist)
AnBaseline ==
    /\ ana.pc = "extracted"
    /\ IF ana.variant = "clean"
       THEN /\ baselineFile' = CleanBaseline(ana.toggles)
            /\ ana' = [ana EXCEPT !.pc = "baseline_ready",
                                  !.baseline = CleanBaseline(ana.toggles),
                                  !.wrote_baseline = TRUE]
       ELSE /\ UNCHANGED baselineFile
            /\ ana' = IF baselineFile = NoFile
                      THEN [ana EXCEPT
                              !.pc = "failed", !.failed_at = "load",
                              !.error =
                                "Clean baseline not found. Run clean first."]
                      ELSE [ana EXCEPT !.pc = "baseline_ready",
                                       !.baseline = baselineFile]
    /\ UNCHANGED <<tk, tkCalls, det, bm, hyp, vcd, mc, tkSamples, be>>

\* line 81 (clean) and lines 95-104 (any other variant): the detector, then
\* the global-activity override
AnDetect ==
    /\ ana.pc = "baseline_ready"
    /\ LET raw == RunDetector(ana.baseline.signals, ana.toggles)
       IN  ana' = [ana EXCEPT
                     !.pc = "detected",
                     !.results =
                        IF ana.variant = "clean" THEN raw
                        ELSE GlobalOverride(raw, ana.total_activity,
                                            ana.baseline.global_activity)]
    /\ UNCHANGED <<tk, tkCalls, det, baselineFile, bm, hyp, vcd, mc, tkSamples, be>>

\* lines 109-113: the image report may fail (plotting libraries); the text
\* report formats statistics.iqr_threshold, which run_detector sets to the
\* string "per-signal" (detector.py line 135), with ":.2f" (text_report.py
\* lines 69-72), which raises ValueError
AnReport ==
    /\ ana.pc = "detected"
    /\ \E image_ok \in BOOLEAN :
          ana' = [ana EXCEPT
                    !.pc = "failed", !.failed_at = "report",
                    !.error = IF image_ok
                              THEN "Unknown format code 'f' for object of type 'str'"
                              ELSE "image report failed"]
    /\ UNCHANGED <<tk, tkCalls, det, baselineFile, bm, hyp, vcd, mc, tkSamples, be>>

InitPipeline ==
    /\ tk = TrackerIdle
    /\ tkCalls = <<>>
    /\ det = DetIdle
    /\ baselineFile = NoFile
    /\ bm = BmIdle
    /\ hyp = HypIdle
    /\ vcd = VcdIdle
    /\ mc = McIdle
    /\ ana = AnIdle
    /\ tkSamples = <<>>
    /\ be = BeIdle

\* a behaviour follows one of the two programs (AnExtract and McStart exclude
\* each other): they are separate entry points and share no state
NextPipeline ==
    \/ AnExtract \/ AnBaseline \/ AnDetect \/ AnReport
    \/ McStart \/ McSample \/ McBatchEnd \/ McFinish

SpecPipeline == InitPipeline /\ [][NextPipeline]_vars

-----------------------------------------------------------------------------
(* Properties of failure and persisted output                               *)

\* every sample of every executed batch of the Monte Carlo run succeeded
AllSamplesSucceeded ==
    /\ mc.tracker.count = mc.samples_run
    /\ mc.batch_idx # <<>>
    /\ mc.cfg.batch_size > 0 =>
          mc.samples_run = mc.batch_idx[1] * mc.cfg.batch_size

C18_FailureState ==
    /\ ana.pc # "none" =>
          /\ (ana.wrote_baseline \/ ana.results # NoResult) => ana.extracted
          /\ (ana.pc = "failed" /\ ana.failed_at \in {"extract", "load"}) =>
                (~ana.wrote_baseline /\ ana.results = NoResult)
    /\ mc.pc # "none" =>
          /\ (mc.file.exists \/ mc.result # NoDict) =>
                (mc.pc = "returned" /\ AllSamplesSucceeded)
          /\ mc.pc = "failed" => (~mc.file.exists /\ mc.result = NoDict)

C18_WriteStep ==
    /\ baselineFile' # baselineFile =>
          (ana.pc = "extracted" /\ ana.extracted /\ ana.variant = "clean")
    /\ (ana.pc # "none" /\ ana'.results # NoResult /\ ana.results = NoResult)
          => (ana.pc = "baseline_ready" /\ ana.extracted)
    /\ (mc.pc # "none" /\ mc'.file # mc.file) =>
          (mc.pc = "finish" /\ AllSamplesSucceeded)

\* C18, restricted to the failures that precede the outputs: the analysis
\* script writes the baseline file and runs the detector only after toggle
\* extraction succeeded, and a failed extraction or a missing baseline leaves
\* neither a written baseline nor a result; run_monte_carlo writes its output
\* only after every sample of every executed batch succeeded, and a failed
\* run leaves neither a file nor a result.
C18_OutputsOnlyAfterSuccess ==
    []C18_FailureState /\ [][C18_WriteStep]_vars

C18_Witness ==
    /\ ana.pc = "failed"
    /\ ana.failed_at = "extract"
    /\ ana.variant = "clean"
    /\ ana.runs = 2
    /\ baselineFile = CleanBaseline(<<<<SigAcc, 3>>, <<SigCarry, 1>>>>)
    /\ ~ana.wrote_baseline

\* C18 as stated: on any fatal error neither a baseline file nor a result is
\* produced by the failed run.
C18_NoOutputOnAnyFailure ==
    /\ (ana.pc # "none" /\ ana.pc = "failed") =>
          (~ana.wrote_baseline /\ ana.results = NoResult)
    /\ (mc.pc # "none" /\ mc.pc = "failed") =>
          (~mc.file.exists /\ mc.result = NoDict)

-----------------------------------------------------------------------------
(* ConvergenceTracker.update with the history of the values fed             *)

\* values fed to update where the history is kept
WelfordValues == {-3, 0, 1, 2, 4}

\* update(value), lines 85-90, with the value appended to the history
TkUpdateLogged ==
    /\ tk.state = "live"
    /\ tk.count < MaxSamples
    /\ \E v \in WelfordValues :
          /\ tk' = WelfordUpdate(tk, v)
          /\ tkSamples' = Append(tkSamples, v)
    /\ UNCHANGED <<tkCalls, det, baselineFile, bm, hyp, vcd, mc, ana, be>>

InitWelford ==
    /\ tk = TrackerIdle
    /\ tkCalls = <<>>
    /\ det = DetIdle
    /\ baselineFile = NoFile
    /\ bm = BmIdle
    /\ hyp = HypIdle
    /\ vcd = VcdIdle
    /\ mc = McIdle
    /\ ana = AnIdle
    /\ tkSamples = <<>>
    /\ be = BeIdle

NextWelford == TkConstruct \/ TkUpdateLogged

SpecWelford == InitWelford /\ [][NextWelford]_vars

\* two-pass statistics of a sequence of samples
RECURSIVE SumOfSamples(_, _)
SumOfSamples(xs, n) ==
    IF n = 0 THEN 0 ELSE xs[n] + SumOfSamples(xs, n - 1)

ArithmeticMean(xs) == Norm(SumOfSamples(xs, Len(xs)), Len(xs))

RECURSIVE SquaredDeviations(_, _, _)
SquaredDeviations(xs, m, n) ==
    IF n = 0 THEN R(0)
    ELSE RAdd(RMul(RSub(R(xs[n]), m), RSub(R(xs[n]), m)),
              SquaredDeviations(xs, m, n - 1))

TwoPassVariance(xs) ==
    RDivInt(SquaredDeviations(xs, ArithmeticMean(xs), Len(xs)), Len(xs) - 1)

\* C21: after n update calls the tracker's count is n, its mean() is the
\* arithmetic mean of the values fed and, for n >= 2, its variance() is the
\* two-pass sample variance with divisor n - 1, whatever the values were.
C21_OnlineMatchesTwoPass ==
    tk.state = "live" =>
        /\ tk.count = Len(tkSamples)
        /\ tk.count >= 1 => tk.mean = ArithmeticMean(tkSamples)
        /\ tk.count >= 2 => Variance(tk) = TwoPassVariance(tkSamples)

C21_Witness ==
    /\ tk.state = "live"
    /\ tkSamples = <<4, -3, 2, 4>>
    /\ tk.mean = <<7, 4>>
    /\ Variance(tk) = TwoPassVariance(tkSamples)
    /\ Variance(tk) # R(0)

-----------------------------------------------------------------------------
(* run_monte_carlo: the batch loop                                          *)

\* the run got past configuration loading and tracker construction and no
\* sample raised
RanItsBatches ==
    /\ mc.pc \in {"returned", "failed"}
    /\ mc.tracker.state = "live"
    /\ mc.error # "simulation sample failed"

\* C22: run_monte_carlo runs at most max_batches batches of exactly
\* batch_size samples, evaluates check_convergence once at the end of each
\* batch, stops at the first evaluation that returns true, and then reports
\* converged = true exactly when it stopped for that reason, otherwise
\* converged = false after exactly max_batches batches.
C22_BatchLoopContract ==
    /\ mc.pc = "batch_end" => mc.in_batch = mc.cfg.batch_size
    /\ mc.pc \in {"sample", "batch_end"} =>
          /\ mc.batch_idx[1] <= mc.cfg.max_batches
          /\ mc.checks = mc.batch_idx[1] - 1
          /\ ~mc.converged
    /\ RanItsBatches =>
          /\ mc.pc = "returned"
          /\ mc.result["converged"] = mc.tracker.last_result
          /\ mc.checks = mc.result["batches_run"]
          /\ mc.result["samples"] = mc.cfg.batch_size * mc.result["batches_run"]
          /\ ~mc.result["converged"] =>
                mc.result["batches_run"] = mc.cfg.max_batches

-----------------------------------------------------------------------------
(* _parse_vcd: one signal name declared under two symbols                   *)

\* the records of one symbol, in file order
RECURSIVE RecordsOf(_, _)
RecordsOf(body, symbol) ==
    IF body = <<>> THEN <<>>
    ELSE IF IsRecord(Head(body)) /\ RecordSymbol(Head(body)) = symbol
         THEN <<RecordValue(Head(body))>> \o RecordsOf(Tail(body), symbol)
         ELSE RecordsOf(Tail(body), symbol)

\* transitions of one symbol on its own: neighbours that differ
OwnTransitions(values) ==
    Cardinality({i \in 2..Len(values) : values[i - 1] # values[i]})

\* rising edges of one symbol on its own
OwnRisingEdges(values) ==
    Cardinality({i \in 2..Len(values) :
                    values[i - 1] = <<"0">> /\ values[i] = <<"1">>})

OwnLastValue(values) ==
    IF values = <<>> THEN NoValue ELSE values[Len(values)]

SymFirst == IdOfWord(<<"!">>)
SymAlias == IdOfWord(<<"%">>)

AliasLogPastHeader ==
    /\ VcdOpened
    /\ MarkerIndex(vcd.log) # 0
    /\ HeaderOf(vcd.log) = AliasHeader

\* C23: two symbols declared with the same signal name are never merged: each
\* keeps its own last-seen value, the total is the sum of the transitions of
\* each counted on its own, the clock name resolves to the symbol declared
\* last, and only that symbol's rising edges count as cycles.
C23_SameNameSymbolsCountedSeparately ==
    AliasLogPastHeader =>
        LET first == RecordsOf(BodyOf(vcd.log), SymFirst)
            alias == RecordsOf(BodyOf(vcd.log), SymAlias)
        IN  /\ vcd.clock_id = SymAlias
            /\ vcd.last_value[SymFirst] = OwnLastValue(first)
            /\ vcd.last_value[SymAlias] = OwnLastValue(alias)
            /\ vcd.total_toggles = OwnTransitions(first) + OwnTransitions(alias)
            /\ vcd.cycles = OwnRisingEdges(alias)

C23_Witness ==
    /\ AliasLogPastHeader
    /\ vcd.pc = "returned"
    /\ BodyOf(vcd.log) = <<LineAlias0, LineAlias1, LineClk0, LineClk0>>
    /\ vcd.result = [total_toggles |-> 1, cycles |-> 1]
    /\ vcd.last_value[SymFirst] = <<"0">>
    /\ vcd.last_value[SymAlias] = <<"1">>

-----------------------------------------------------------------------------
(* IcarusBackend.run / VivadoBackend.run: working directory life cycle      *)

MaxBackendRuns == 2   \* calls of run() on one backend object

BackendNames == {"iverilog", "vivado"}

\* the statements of the try block, in order (iverilog.py 130-152,
\* vivado.py 98-103)
TrySteps(backend) ==
    IF backend = "iverilog"
    THEN <<"read_cfg", "compile", "simulate", "parse_vcd">>
    ELSE <<"generate_tcl", "run_vivado", "parse_activity">>

\* sim_cfg["activity"] as VivadoBackend reads it (vivado.py 136, 196); the
\* Icarus backend does not read the key
ActivityKinds(backend) ==
    IF backend = "vivado" THEN {"vcd", "saif", "other"} ELSE {"vcd"}

\* whether a statement of the try block can return normally: _generate_tcl
\* raises ValueError for an activity other than vcd and saif (vivado.py
\* 138-139), _parse_saif reads the undefined name sim_cfg (vivado.py 322)
StepCanReturn(b, name) ==
    /\ ~(name = "generate_tcl" /\ b.activity = "other")
    /\ ~(name = "parse_activity" /\ b.activity = "saif")

\* setup, iverilog.py 38-42, vivado.py 39-44: mkdtemp creates directory id
SetupDone(b, id) ==
    [b EXCEPT !.workdir = <<id>>, !.dirs = b.dirs \cup {id},
              !.events = <<"setup">>, !.step = 1, !.pc = "in_try",
              !.runs = b.runs + 1]

\* mkdtemp raises: run() raises before the try statement is entered
SetupRaised(b) ==
    [b EXCEPT !.events = <<>>, !.pc = "raised", !.runs = b.runs + 1]

ExitTry_RaiseSkipsFinally(b, outcome) ==
    IF outcome = "raised" THEN [b EXCEPT !.pc = "raised"]
    ELSE [b EXCEPT !.pc = "finally", !.outcome = outcome]

\* try ... finally, iverilog.py 129-156, vivado.py 97-107: a return and a
\* raise both pass through the finally block
ExitTry(b, outcome) ==
    [b EXCEPT !.pc = "finally", !.outcome = outcome]

\* cleanup, iverilog.py 44-49, vivado.py 46-51
Cleanup(b) ==
    [b EXCEPT !.dirs = IF b.workdir # <<>> /\ b.workdir[1] \in b.dirs
                       THEN b.dirs \ {b.workdir[1]} ELSE b.dirs,
              !.events = Append(b.events, "cleanup")]

\* __init__, iverilog.py 31-32, vivado.py 31-33
BeConstruct ==
    /\ be.pc = "none"
    /\ \E backend \in BackendNames :
          be' = [ pc |-> "ready", backend |-> backend, workdir |-> <<>>,
                  dirs |-> {}, events |-> <<>>, step |-> 0, runs |-> 0,
                  outcome |-> "none", activity |-> "vcd" ]
    /\ UNCHANGED <<tk, tkCalls, det, baselineFile, bm, hyp, vcd, mc, ana, tkSamples>>

\* run() is called: self.setup(sim_cfg), iverilog.py 127, vivado.py 95
BeSetup ==
    /\ be.pc \in {"ready", "returned", "raised"}
    /\ be.runs < MaxBackendRuns
    /\ \E activity \in ActivityKinds(be.backend) :
          LET b1 == [be EXCEPT !.activity = activity]
          IN  \/ be' = SetupDone(b1, be.runs + 1)
              \/ be' = SetupRaised(b1)
    /\ UNCHANGED <<tk, tkCalls, det, baselineFile, bm, hyp, vcd, mc, ana, tkSamples>>

\* the next statement of the try block returns normally or raises
BeStep ==
    /\ be.pc = "in_try"
    /\ LET name == TrySteps(be.backend)[be.step]
           b1 == [be EXCEPT !.events = Append(be.events, name)]
       IN  \/ /\ StepCanReturn(be, name)
              /\ be' = IF be.step = Len(TrySteps(be.backend))
                       THEN ExitTry(b1, "returned")
                       ELSE [b1 EXCEPT !.step = be.step + 1]
           \/ be' = ExitTry(b1, "raised")
    /\ UNCHANGED <<tk, tkCalls, det, baselineFile, bm, hyp, vcd, mc, ana, tkSamples>>

\* finally: self.cleanup(), then run() returns or re-raises
BeCleanup ==
    /\ be.pc = "finally"
    /\ be' = [Cleanup(be) EXCEPT !.pc = be.outcome]
    /\ UNCHANGED <<tk, tkCalls, det, baselineFile, bm, hyp, vcd, mc, ana, tkSamples>>

InitBackend ==
    /\ tk = TrackerIdle
    /\ tkCalls = <<>>
    /\ det = DetIdle
    /\ baselineFile = NoFile
    /\ bm = BmIdle
    /\ hyp = HypIdle
    /\ vcd = VcdIdle
    /\ mc = McIdle
    /\ ana = AnIdle
    /\ tkSamples = <<>>
    /\ be = BeIdle

NextBackend == BeConstruct \/ BeSetup \/ BeStep \/ BeCleanup

SpecBackend == InitBackend /\ [][NextBackend]_vars

CleanupCalls(events) ==
    Cardinality({i \in 1..Len(events) : events[i] = "cleanup"})

\* C24: in run() of either backend, cleanup never runs before setup, and once
\* run() has returned or raised, after a setup that created a directory the
\* last thing done was the one cleanup call, and no working directory remains.
C24_WorkdirRemovedOnEveryExit ==
    be.pc # "none" =>
        /\ \A i \in 1..Len(be.events) :
              be.events[i] = "cleanup" => (i > 1 /\ be.events[1] = "setup")
        /\ be.pc \in {"ready", "returned", "raised"} =>
              /\ be.dirs = {}
              /\ be.events # <<>> =>
                    /\ be.events[Len(be.events)] = "cleanup"
                    /\ CleanupCalls(be.events) = 1

C24_Witness ==
    /\ be.pc = "raised"
    /\ be.backend = "iverilog"
    /\ be.runs = 2
    /\ be.events = <<"setup", "read_cfg", "compile", "cleanup">>
    /\ be.dirs = {}

-----------------------------------------------------------------------------
(* VivadoBackend._parse_vcd against IcarusBackend._parse_vcd                *)

\* C25: on the same log and clock name the Vivado parser and the Icarus
\* parser stop at the same point: both are still reading, or both have
\* failed, or both have returned the same result, whose cycles is the number
\* of 0-to-1 transitions of the clock symbol and is at least 1.
C25_VivadoParserAgrees ==
    vcd.pc # "none" =>
        /\ vcd.viv.pc = vcd.pc
        /\ vcd.pc = "returned" =>
              /\ vcd.viv.result = vcd.result
              /\ vcd.viv.result.cycles >= 1
              /\ vcd.viv.result.cycles =
                    OwnRisingEdges(RecordsOf(BodyOf(vcd.log), vcd.clock_id))

C25_Witness ==
    /\ vcd.pc = "returned"
    /\ vcd.viv.pc = "returned"
    /\ BodyOf(vcd.log) = <<LineClk1, LineClk0, LineClk1, LineBus1>>
    /\ vcd.viv.result = [total_toggles |-> 2, cycles |-> 1]

C25_WitnessBothFail ==
    /\ vcd.pc = "failed"
    /\ vcd.viv.pc = "failed"
    /\ vcd.error = "No clock cycles detected"
    /\ vcd.viv.error = "No clock cycles detected in VCD"
    /\ vcd.log = <<LineVarClk, LineEndDefs, LineClk1, LineClk0>>

-----------------------------------------------------------------------------
(* check_convergence called again without a new sample                      *)

\* calls i-1 and i of the history had no update between them (every update
\* raises the count) and saw at least two samples
RepeatedCheck(i) ==
    /\ i \in 2..Len(tkCalls)
    /\ tkCalls[i].count = tkCalls[i - 1].count
    /\ tkCalls[i].count >= 2

\* C26: a check_convergence call that follows another one with no update in
\* between, on a tracker with at least two samples, is always in tolerance:
\* the streak is one more than after the previous call, and from the
\* stable_batches-th such call in a row on the call returns true.
C26_RepeatedCheckGrowsStreak ==
    tk.state = "live" =>
        \A i \in 2..Len(tkCalls) :
            RepeatedCheck(i) =>
                /\ tkCalls[i].streak = tkCalls[i - 1].streak + 1
                /\ tkCalls[i].result =
                      (tkCalls[i].streak >= tk.stable_batches_required)
                /\ (\A j \in (i - tk.stable_batches_required + 1)..i :
                        j >= 2 /\ RepeatedCheck(j))
                      => tkCalls[i].result = TRUE

C26_Witness ==
    /\ tk.state = "live"
    /\ tk.stable_batches_required = 2
    /\ Len(tkCalls) = 3
    /\ RepeatedCheck(2) /\ RepeatedCheck(3)
    /\ tkCalls[1].streak = 0 /\ tkCalls[1].result = FALSE
    /\ tkCalls[2].streak = 1 /\ tkCalls[2].result = FALSE
    /\ tkCalls[3].streak = 2 /\ tkCalls[3].result = TRUE

-----------------------------------------------------------------------------
(* run_monte_carlo: the earliest batch that can converge                    *)

\* C27: run_monte_carlo never declares convergence before the end of batch
\* stable_batches + 1, and with batch_size = 1 not before the end of batch
\* stable_batches + 2: the first evaluation with two samples only seeds the
\* checkpoint and each later evaluation adds at most one to the streak.
C27_EarliestConvergingBatch ==
    (mc.pc # "none" /\ mc.tracker.state = "live") =>
        /\ mc.tracker.stable_count
              <= (IF mc.checks = 0 THEN 0 ELSE mc.checks - 1)
        /\ mc.cfg.batch_size = 1 =>
              mc.tracker.stable_count
                 <= (IF mc.checks <= 1 THEN 0 ELSE mc.checks - 2)
        /\ mc.converged =>
              /\ mc.batch_idx[1] >= mc.cfg.stable_batches + 1
              /\ mc.cfg.batch_size = 1 =>
                    mc.batch_idx[1] >= mc.cfg.stable_batches + 2

C27_Witness ==
    /\ mc.pc = "returned"
    /\ mc.cfg.batch_size = 1
    /\ mc.cfg.stable_batches = 1
    /\ mc.result["converged"] = TRUE
    /\ mc.result["batches_run"] = 3
    /\ mc.result["samples"] = 3

C27_WitnessLargerBatch ==
    /\ mc.pc = "returned"
    /\ mc.cfg.batch_size = 2
    /\ mc.cfg.stable_batches = 2
    /\ mc.result["converged"] = TRUE
    /\ mc.result["batches_run"] = 3

-----------------------------------------------------------------------------
(* run_detector: the decision block and the signal count                    *)

DetectorReturned ==
    det.op \in {"run_detector", "analysis_clean", "analysis_variant"}

\* C28: in a result of run_detector, trojan_detected is true exactly when the
\* anomaly list is non-empty, primary_signal, primary_deviation and z_score
\* are those of the anomaly ranked 1 (None for all three when the list is
\* empty), and total_signals is the number of observed signals, filtered
\* ones included.
C28_DecisionMatchesAnomalies ==
    DetectorReturned =>
        LET r == det.detector_results
            a == r.anomalies
        IN  /\ r.decision.trojan_detected = (Len(a) > 0)
            /\ Len(a) > 0 =>
                  /\ a[1].rank = 1
                  /\ r.decision.primary_signal = a[1].signal
                  /\ r.decision.primary_deviation = a[1].deviation
                  /\ r.decision.z_score = a[1].z_score
            /\ Len(a) = 0 =>
                  /\ r.decision.primary_signal = <<>>
                  /\ r.decision.primary_deviation = NoFloat
                  /\ r.decision.z_score = NoFloat
            /\ r.total_signals = Len(det.observed)

\* two anomalies, the one ranked 1 is not the first observed signal
C28_Witness ==
    /\ det.op = "run_detector"
    /\ Len(det.detector_results.anomalies) = 2
    /\ det.detector_results.decision.trojan_detected
    /\ det.detector_results.decision.primary_signal = det.observed[2][1]
    /\ det.detector_results.anomalies[1].deviation
          # det.detector_results.anomalies[2].deviation
    /\ det.detector_results.total_signals = 2

\* one signal filtered, one tested and anomalous
C28_WitnessFiltered ==
    /\ det.op = "run_detector"
    /\ Len(det.observed) = 2
    /\ Len(det.tested) = 1
    /\ det.detector_results.total_signals = 2
    /\ Len(det.detector_results.anomalies) = 1

-----------------------------------------------------------------------------
(* the clean variant analysed against the baseline of the same run          *)

InitCleanAnalysis ==
    /\ tk = TrackerIdle
    /\ tkCalls = <<>>
    /\ det = DetIdle
    /\ baselineFile = NoFile
    /\ bm = BmIdle
    /\ hyp = HypIdle
    /\ vcd = VcdIdle
    /\ mc = McIdle
    /\ ana = AnIdle
    /\ tkSamples = <<>>
    /\ be = BeIdle

NextCleanAnalysis == AnalyzeCleanAny

SpecCleanAnalysis == InitCleanAnalysis /\ [][NextCleanAnalysis]_vars

\* C29: the clean variant analysed against its own baseline never reports a
\* detection: every observed count equals the threshold stored for its
\* signal, the anomaly list is empty, trojan_detected is false, and the
\* result is the detector's own (no global-activity override).
C29_CleanRunNeverDetects ==
    det.op = "analysis_clean" =>
        /\ \A i \in 1..Len(det.observed) :
              /\ det.observed[i][1] \in DOMAIN det.baseline
              /\ det.baseline[det.observed[i][1]].iqr_threshold
                    = R(det.observed[i][2])
        /\ det.detector_results.anomalies = <<>>
        /\ ~det.results.decision.trojan_detected
        /\ det.results = det.detector_results
        /\ baselineFile.signals = det.baseline

\* a clean run with two tested signals of positive activity
C29_Witness ==
    /\ det.op = "analysis_clean"
    /\ Len(det.observed) = 2
    /\ Len(det.tested) = 2
    /\ det.observed[1][2] = 6 /\ det.observed[2][2] = 3
    /\ det.total_activity = 9
    /\ det.results.decision.confidence = "low"

-----------------------------------------------------------------------------
(* ConvergenceTracker: what each method leaves alone                        *)

\* update: only count, mean and M2 may differ
UpdateFrame ==
    tk' = [tk EXCEPT !.count = tk'.count, !.mean = tk'.mean, !.m2 = tk'.m2]

\* check_convergence: only the checkpoint and the streak may differ (and the
\* recorded return value); nothing at all with fewer than two samples
CheckFrame ==
    /\ tk' = [tk EXCEPT !.prev_mean = tk'.prev_mean,
                        !.prev_variance = tk'.prev_variance,
                        !.stable_count = tk'.stable_count,
                        !.last_result = tk'.last_result]
    /\ tk.count < 2 => tk' = [tk EXCEPT !.last_result = FALSE]

\* a step of a constructed tracker is a check_convergence call when the call
\* history grows, an update when the count grows, and a reading call
\* otherwise
TrackerFrameStep ==
    (tk.state = "live" /\ tk'.state = "live") =>
        IF Len(tkCalls') = Len(tkCalls) + 1 THEN CheckFrame
        ELSE IF tk'.count = tk.count + 1 THEN UpdateFrame /\ tkCalls' = tkCalls
        ELSE tk' = tk /\ tkCalls' = tkCalls

\* C30: update changes only count, mean and M2, never the checkpoint or the
\* streak; mean(), variance() and status() change nothing; check_convergence
\* with fewer than two samples returns false and changes nothing, and
\* otherwise changes only the checkpoint and the streak.
C30_FrameConditions == [][TrackerFrameStep]_vars

\* an update after two checks: the checkpoint and the streak of the second
\* check are still in place while the mean has moved
C30_Witness ==
    /\ tk.state = "live"
    /\ Len(tkCalls) = 2
    /\ tkCalls[2].streak = 1
    /\ tk.count = tkCalls[2].count + 1
    /\ tk.stable_count = 1
    /\ tk.prev_mean = tkCalls[2].mean
    /\ tk.prev_mean # tk.mean
    /\ StatusCall(tk).tracker = tk
    /\ StatusCall(tk).value.stable_batches = 1

=============================================================================
